---- MODULE Spec2Model ----
(***************************************************************************)
(* Model of the uap_podcast turn-taking pipeline.                          *)
(*                                                                         *)
(*   Spec      the session orchestrators: run_podcast (podcast_engine.py)  *)
(*             and generate_podcast with the compiled LangGraph graph and  *)
(*             its event-stream runner (graph.py).                         *)
(*   SpecLLM   llm_safe, the tiered wrapper around the model call          *)
(*             (Models_podcast.py / podcast_engine.py).                    *)
(*   SpecSoft  _soften, the prompt-softening transform, as a pure function *)
(*             over bounded token sequences.                               *)
(*                                                                         *)
(* External calls (the chat completion, the speech synthesis) are          *)
(* nondeterministic: each may succeed or raise.                            *)
(***************************************************************************)
EXTENDS Integers, Sequences, FiniteSets, TLC

VARIABLES
    \* ---- session (run_podcast / generate_podcast) ----
    impl,                 \* "engine" = run_podcast, "graph" = generate_podcast
    max_turns,            \* turn budget N (turns / state["max_turns"])
    pc,                   \* the step the session executes next
    script_lines,         \* script_lines list
    audio_segments,       \* segments / state["audio_segments"]
    conversation_history, \* conversation_history list
    i,                    \* run_podcast: loop index of `for i in range(turns)`
    current_turn,         \* graph: state["current_turn"], counted in half pairs (x2)
    current_speaker,      \* graph: state["current_speaker"]
    mode,                 \* graph: "stream" (astream_events) or "ainvoke" (fallback)
    final_state,          \* graph: _run_with_events' final_state
    outcome,              \* "running", "success" (returned) or "error" (raised)
    master,               \* the final audio file: the segments merged into it
    transcript,           \* the transcript file: the script lines written to it
    turn_failed,          \* history: some model or synthesis call of the session raised
    events,               \* history: start and end of every llm / synth call, in order
    tmp_files,            \* the seg_*.wav files of synth that exist on disk
    exited,               \* the interpreter has exited (atexit handlers have run)
    \* ---- llm_safe ----
    llm_module,           \* the module whose llm_safe runs: "models" or "engine"
    llm_pc,               \* the model call llm_safe makes next, or how it ended
    system, user,         \* the caller's instruction and prompt (texts)
    max_tokens,           \* the caller's max_tokens
    temperature,          \* the caller's temperature, in hundredths
    calls,                \* the _llm_sync calls made so far, in order
    out,                  \* python variable `out`: the last provider output
    llm_result,           \* value returned by llm_safe
    llm_error,            \* error propagated by llm_safe, or "none"
    \* ---- _soften ----
    sf_pc,                \* "ready" before the transform is applied, "done" after
    sf_in,                \* the argument `text`
    sf_out,               \* the returned text
    \* ---- vary_opening ----
    last_open,            \* the last_open table: role -> last opener inserted, "" if none
    open_prev,            \* role -> opener inserted by the role's turn before its latest, "" if none
    open_now,             \* role -> opener inserted by the role's latest turn, "" if none
    \* ---- one call of a text or speech utility ----
    fn_pc,                \* "idle", "ready" (called, not yet run) or "done" (returned)
    fn_arg,               \* the arguments, and the values random drew during the call
    fn_ret                \* the returned value

sessVars == <<impl, max_turns, pc, script_lines, audio_segments, conversation_history,
              i, current_turn, current_speaker, mode, final_state, outcome, master,
              transcript, turn_failed, events, tmp_files, exited>>
llmVars  == <<llm_module, llm_pc, system, user, max_tokens, temperature, calls, out, llm_result, llm_error>>
sfVars   == <<sf_pc, sf_in, sf_out>>
openVars == <<last_open, open_prev, open_now>>
\* the state of the text, speech and opener utilities
fnVars   == <<fn_pc, fn_arg, fn_ret>>
toolVars == <<openVars, fnVars>>
vars     == <<sessVars, llmVars, sfVars, toolVars>>

\* ------------------------------------------------------------------ bounds
MaxTurns == 2

\* ------------------------------------------------------------- generic helpers
\* A file that was not written, and a file written with content c.
NoFile == [written |-> FALSE]
File(c) == [written |-> TRUE, content |-> c]
\* llm_safe has not returned, and llm_safe returned v.
NoResult == [returned |-> FALSE]
Returned(v) == [returned |-> TRUE, value |-> v]

Max(a, b) == IF a >= b THEN a ELSE b
Min(a, b) == IF a <= b THEN a ELSE b

IsPrefix(s, t) == Len(s) <= Len(t) /\ \A k \in 1..Len(s) : s[k] = t[k]

\* ============================================================ session: data
\* One script line "Agent <Label>:<text>"; text names the utterance, pair is the
\* 1-based round-robin pair of a generated turn (0 for the fixed lines).
Line(label, text, pair) == [label |-> label, text |-> text, pair |-> pair]
\* The wav file synth returned for text_to_ssml(text, role).
Seg(role, text, pair) == [role |-> role, text |-> text, pair |-> pair]
\* One conversation_history entry.
Hist(speaker, text, pair) == [speaker |-> speaker, text |-> text, pair |-> pair]

Label(role) == CASE role = "NEXUS" -> "Agent Nexus"
                 [] role = "RECO"  -> "Agent Reco"
                 [] role = "STAT"  -> "Agent Stat"

\* ask_turns_and_duration: turns = max(1, min(12, turns))
TurnCap == 12
ClampTurns(t) == Max(1, Min(TurnCap, t))

\* ============================================================ run_podcast
\* The four fixed lines of run_podcast: role and the pc that follows.
EngineFixed ==
    [nexus_intro |-> [role |-> "NEXUS", text |-> "NEXUS_INTRO", next |-> "reco_intro"],
     reco_intro  |-> [role |-> "RECO",  text |-> "RECO_INTRO",  next |-> "stat_intro"],
     stat_intro  |-> [role |-> "STAT",  text |-> "STAT_INTRO",  next |-> "nexus_topic_intro"],
     nexus_outro |-> [role |-> "NEXUS", text |-> "NEXUS_OUTRO", next |-> "write"]]

\* Where the loop `for i in range(turns)` goes after the body ran for index k.
EngineLoopNext(k, turns) == IF k + 1 < turns THEN "reco_turn" ELSE "nexus_outro"
\* Where run_podcast goes after the topic intro: into the loop if range(turns) is non-empty.
EngineLoopEnter(turns) == IF 0 < turns THEN "reco_turn" ELSE "nexus_outro"

\* The start or the end of one external call of step `step`: llm(...) or
\* synth(ssml). lines and segs are the lengths of script_lines and of the segment list
\* at that moment; ok is FALSE on the end of a call that raised.
Event(kind, at, step, ok, lines, segs) ==
    [kind |-> kind, at |-> at, step |-> step, ok |-> ok, lines |-> lines, segs |-> segs]
\* a variant that starts the call and goes on without awaiting its end
MutCallEvents(kind, step, ok, lines, segs) ==
    <<Event(kind, "start", step, TRUE, lines, segs)>>
CallEvents(kind, step, ok, lines, segs) ==
    <<Event(kind, "start", step, TRUE, lines, segs), Event(kind, "end", step, ok, lines, segs)>>
\* The seg_*.wav file of the n-th synth call of the process.
TmpFile(n) == [seg |-> n]
SynthStarts(ev) == {k \in 1..Len(ev) : ev[k].kind = "synth" /\ ev[k].at = "start"}
\* TMP: every path synth registered (TMP.append(tmp) precedes the synthesis call)
TMP == {TmpFile(n) : n \in 1..Cardinality(SynthStarts(events))}

\* What a turn-producing step does outside the session's lists: an awaited llm call
\* if it has one, then, unless that raised, a synth call; `early` is 1 where the
\* script line is appended before synth is called (run_podcast) and 0 where the
\* lists change only when the node returns (graph.py). synth keeps its file when it
\* returns and removes it when it raises (a removal that itself fails is covered by
\* SpecSynth).
Ledger(step, has_llm, llm_ok, synth_ok, early) ==
    LET l == Len(script_lines)
        g == Len(audio_segments)
        model == IF has_llm THEN CallEvents("llm", step, llm_ok, l, g) ELSE <<>>
        speech == IF has_llm /\ ~llm_ok THEN <<>>
                  ELSE CallEvents("synth", step, synth_ok, l + early, g)
    IN  /\ events' = events \o model \o speech
        /\ tmp_files' = IF speech # <<>> /\ synth_ok
                           THEN tmp_files \cup {TmpFile(Cardinality(SynthStarts(events)) + 1)}
                           ELSE tmp_files
        /\ UNCHANGED exited
NoLedger == UNCHANGED <<events, tmp_files, exited>>

EngineRaise ==
    /\ pc' = "raised"
    /\ outcome' = "error"
    /\ turn_failed' = TRUE

\* script_lines.append(...); segments.append(synth(ssml))   [fixed lines]
EngineFixedLine(synth_ok) ==
    /\ impl = "engine"
    /\ pc \in DOMAIN EngineFixed
    /\ LET f == EngineFixed[pc] IN
       /\ script_lines' = Append(script_lines, Line(Label(f.role), f.text, 0))
       /\ IF synth_ok
            THEN /\ audio_segments' = Append(audio_segments, Seg(f.role, f.text, 0))
                 /\ pc' = f.next
                 /\ UNCHANGED <<outcome, turn_failed>>
            ELSE /\ EngineRaise
                 /\ UNCHANGED audio_segments
       /\ Ledger(pc, FALSE, TRUE, synth_ok, 1)
    /\ UNCHANGED <<llmVars, sfVars, toolVars, impl, max_turns, conversation_history, i, current_turn, current_speaker,
                   mode, final_state, master, transcript>>

\* nexus_topic_intro = await generate_nexus_topic_intro(context); append; synth; history
EngineTopicIntro(llm_ok, synth_ok) ==
    /\ impl = "engine"
    /\ pc = "nexus_topic_intro"
    /\ IF ~llm_ok
         THEN /\ EngineRaise
              /\ UNCHANGED <<script_lines, audio_segments, conversation_history>>
         ELSE /\ script_lines' = Append(script_lines, Line("Agent Nexus", "nexus_topic_intro", 0))
              /\ IF synth_ok
                   THEN /\ audio_segments' = Append(audio_segments, Seg("NEXUS", "nexus_topic_intro", 0))
                        /\ conversation_history' =
                               Append(conversation_history, Hist("Nexus", "nexus_topic_intro", 0))
                        /\ pc' = EngineLoopEnter(max_turns)
                        /\ UNCHANGED <<outcome, turn_failed>>
                   ELSE /\ EngineRaise
                        /\ UNCHANGED <<audio_segments, conversation_history>>
    /\ Ledger(pc, TRUE, llm_ok, synth_ok, 1)
    /\ UNCHANGED <<llmVars, sfVars, toolVars, impl, max_turns, i, current_turn, current_speaker, mode, final_state,
                   master, transcript>>

\* One half of the loop body: llm, polish, script_lines.append, synth, segments.append,
\* conversation_history.append.
EngineTurn(role, text, speaker, next, llm_ok, synth_ok) ==
    IF ~llm_ok
      THEN /\ EngineRaise
           /\ UNCHANGED <<script_lines, audio_segments, conversation_history>>
      ELSE /\ script_lines' = Append(script_lines, Line(Label(role), text, i + 1))
           /\ IF synth_ok
                THEN /\ audio_segments' = Append(audio_segments, Seg(role, text, i + 1))
                     /\ conversation_history' =
                            Append(conversation_history, Hist(speaker, text, i + 1))
                     /\ pc' = next
                     /\ UNCHANGED <<outcome, turn_failed>>
                ELSE /\ EngineRaise
                     /\ UNCHANGED <<audio_segments, conversation_history>>

EngineRecoTurn(llm_ok, synth_ok) ==
    /\ impl = "engine"
    /\ pc = "reco_turn"
    /\ EngineTurn("RECO", "reco_response", "Reco", "stat_turn", llm_ok, synth_ok)
    /\ Ledger(pc, TRUE, llm_ok, synth_ok, 1)
    /\ UNCHANGED <<llmVars, sfVars, toolVars, impl, max_turns, i, current_turn, current_speaker, mode, final_state,
                   master, transcript>>

EngineStatTurn(llm_ok, synth_ok) ==
    /\ impl = "engine"
    /\ pc = "stat_turn"
    /\ EngineTurn("STAT", "stat_response", "Stat", EngineLoopNext(i, max_turns), llm_ok, synth_ok)
    /\ i' = IF llm_ok /\ synth_ok THEN i + 1 ELSE i
    /\ Ledger(pc, TRUE, llm_ok, synth_ok, 1)
    /\ UNCHANGED <<llmVars, sfVars, toolVars, impl, max_turns, current_turn, current_speaker, mode, final_state,
                   master, transcript>>

\* write_master(segments, output_file); write script_file
EngineWrite ==
    /\ impl = "engine"
    /\ pc = "write"
    /\ master' = File(audio_segments)
    /\ transcript' = File(script_lines)
    /\ outcome' = "success"
    /\ pc' = "done"
    /\ NoLedger
    /\ UNCHANGED <<llmVars, sfVars, toolVars, impl, max_turns, script_lines, audio_segments, conversation_history, i,
                   current_turn, current_speaker, mode, final_state, turn_failed>>

\* ============================================================ graph.py
\* final_state before any node output was seen (final_state = None in python).
NoState == [none |-> TRUE]
\* An event output that is a dict without the key "audio_segments".
Trimmed == [trimmed |-> TRUE]

\* `"audio_segments" not in final_state` negated (graph.py line 637)
HasSegments(fs) == "audio_segments" \in DOMAIN fs

\* The dict a node returns: the keys generate_podcast reads afterwards.
NodeOutput(segs, hist, lines, speaker, turn, node) ==
    [audio_segments |-> segs, conversation_history |-> hist, script_lines |-> lines,
     current_speaker |-> speaker, current_turn |-> turn, current_node |-> node]

\* a variant with a strict comparison
MutShouldContinue(turn, turns) ==
    IF turn > 2 * turns THEN "end_conversation" ELSE "continue_conversation"
\* should_continue: "end_conversation" if current_turn >= max_turns (both in half pairs here)
should_continue(turn, turns) ==
    IF turn >= 2 * turns THEN "end_conversation" ELSE "continue_conversation"

\* _build_compiled_graph: the edge leaving `node`, given the state the node produced.
GraphEdge(node, turn, turns) ==
    CASE node = "nexus_intro"       -> "reco_intro"
      [] node = "reco_intro"        -> "stat_intro"
      [] node = "stat_intro"        -> "nexus_topic_intro"
      [] node = "nexus_topic_intro" -> "reco_turn"
      [] node = "reco_turn"         ->
            IF should_continue(turn, turns) = "continue_conversation"
              THEN "stat_turn" ELSE "nexus_outro"
      [] node = "stat_turn"         ->
            IF should_continue(turn, turns) = "continue_conversation"
              THEN "reco_turn" ELSE "nexus_outro"
      [] node = "nexus_outro"       -> "END"

\* The fixed-line nodes: role, line and the current_speaker each sets.
GraphFixed ==
    [nexus_intro |-> [role |-> "NEXUS", text |-> "NEXUS_INTRO", speaker |-> "RECO"],
     reco_intro  |-> [role |-> "RECO",  text |-> "RECO_INTRO",  speaker |-> "STAT"],
     stat_intro  |-> [role |-> "STAT",  text |-> "STAT_INTRO",  speaker |-> "NEXUS"],
     nexus_outro |-> [role |-> "NEXUS", text |-> "NEXUS_OUTRO", speaker |-> "END"]]

\* A node raised: astream_events' exception is caught (line 624) and the runner goes
\* on to its final_state check; ainvoke's exception is re-raised (line 646).
GraphNodeFails ==
    /\ turn_failed' = TRUE
    /\ IF mode = "stream"
         THEN /\ pc' = "post_stream"
              /\ UNCHANGED outcome
         ELSE /\ pc' = "raised"
              /\ outcome' = "error"
    /\ UNCHANGED <<script_lines, audio_segments, conversation_history, current_turn,
                   current_speaker, final_state>>

\* A node returned `o`: the graph state is updated and the edge taken; the event
\* stream hands the output to the runner (final_state = out, line 618); ainvoke
\* returns the state when the graph reaches END.
GraphNodeReturns(node, o) ==
    /\ audio_segments' = o.audio_segments
    /\ conversation_history' = o.conversation_history
    /\ script_lines' = o.script_lines
    /\ current_speaker' = o.current_speaker
    /\ current_turn' = o.current_turn
    /\ LET next == GraphEdge(node, o.current_turn, max_turns) IN
       IF mode = "stream"
         THEN /\ final_state' = o
              /\ pc' = IF next = "END" THEN "stream_end" ELSE next
         ELSE /\ final_state' = IF next = "END" THEN o ELSE final_state
              /\ pc' = IF next = "END" THEN "finalize" ELSE next
    /\ UNCHANGED <<outcome, turn_failed>>

\* nexus_intro_node, reco_intro_node, stat_intro_node, nexus_outro_node
GraphFixedNode(synth_ok) ==
    /\ impl = "graph"
    /\ pc \in DOMAIN GraphFixed
    /\ LET f == GraphFixed[pc] IN
       IF synth_ok
         THEN GraphNodeReturns(pc,
                NodeOutput(Append(audio_segments, Seg(f.role, f.text, 0)),
                           Append(conversation_history, Hist(f.role, f.text, 0)),
                           Append(script_lines, Line(Label(f.role), f.text, 0)),
                           f.speaker, current_turn, pc))
         ELSE GraphNodeFails
    /\ Ledger(pc, FALSE, TRUE, synth_ok, 0)
    /\ UNCHANGED <<llmVars, sfVars, toolVars, impl, max_turns, i, mode, master, transcript>>

\* nexus_topic_intro_node
GraphTopicIntro(llm_ok, synth_ok) ==
    /\ impl = "graph"
    /\ pc = "nexus_topic_intro"
    /\ IF llm_ok /\ synth_ok
         THEN GraphNodeReturns(pc,
                NodeOutput(Append(audio_segments, Seg("NEXUS", "nexus_topic_intro", 0)),
                           Append(conversation_history, Hist("NEXUS", "nexus_topic_intro", 0)),
                           Append(script_lines, Line("Agent Nexus", "nexus_topic_intro", 0)),
                           "RECO", 0, pc))
         ELSE GraphNodeFails
    /\ Ledger(pc, TRUE, llm_ok, synth_ok, 0)
    /\ UNCHANGED <<llmVars, sfVars, toolVars, impl, max_turns, i, mode, master, transcript>>

\* reco_turn_node: current_pair = int(current_turn) + 1
GraphRecoTurn(llm_ok, synth_ok) ==
    /\ impl = "graph"
    /\ pc = "reco_turn"
    /\ LET pair == (current_turn \div 2) + 1 IN
       IF llm_ok /\ synth_ok
         THEN GraphNodeReturns(pc,
                NodeOutput(Append(audio_segments, Seg("RECO", "reco_response", pair)),
                           Append(conversation_history, Hist("RECO", "reco_response", pair)),
                           Append(script_lines, Line("Agent Reco", "reco_response", pair)),
                           "STAT", current_turn + 1, pc))
         ELSE GraphNodeFails
    /\ Ledger(pc, TRUE, llm_ok, synth_ok, 0)
    /\ UNCHANGED <<llmVars, sfVars, toolVars, impl, max_turns, i, mode, master, transcript>>

\* stat_turn_node. `pair` is the pair the turn belongs to, int(current_turn) + 1 (the
\* progress message prints int(current_turn + 0.5) + 1, which no state depends on).
GraphStatTurn(llm_ok, synth_ok) ==
    /\ impl = "graph"
    /\ pc = "stat_turn"
    /\ LET pair == (current_turn \div 2) + 1
           next_speaker == IF current_turn + 1 < 2 * max_turns THEN "RECO" ELSE "NEXUS"
       IN
       IF llm_ok /\ synth_ok
         THEN GraphNodeReturns(pc,
                NodeOutput(Append(audio_segments, Seg("STAT", "stat_response", pair)),
                           Append(conversation_history, Hist("STAT", "stat_response", pair)),
                           Append(script_lines, Line("Agent Stat", "stat_response", pair)),
                           next_speaker, current_turn + 1, pc))
         ELSE GraphNodeFails
    /\ Ledger(pc, TRUE, llm_ok, synth_ok, 0)
    /\ UNCHANGED <<llmVars, sfVars, toolVars, impl, max_turns, i, mode, master, transcript>>

\* The last event of a completed stream, the root chain's on_chain_end: its output
\* is either a dict without "audio_segments" ("event stream outputs can be
\* trimmed", line 636) or nothing the runner keeps.
GraphStreamEnd(trimmed) ==
    /\ impl = "graph"
    /\ pc = "stream_end"
    /\ final_state' = IF trimmed THEN Trimmed ELSE final_state
    /\ pc' = "post_stream"
    /\ NoLedger
    /\ UNCHANGED <<llmVars, sfVars, toolVars, impl, max_turns, script_lines, audio_segments, conversation_history, i,
                   current_turn, current_speaker, mode, outcome, master, transcript,
                   turn_failed>>

\* _run_with_events after the stream (lines 636-648): without a final_state holding
\* audio_segments the graph is run again from `initial` with ainvoke.
GraphPostStream ==
    /\ impl = "graph"
    /\ pc = "post_stream"
    /\ IF HasSegments(final_state)
         THEN /\ pc' = "finalize"
              /\ UNCHANGED <<script_lines, audio_segments, conversation_history,
                             current_turn, current_speaker, mode>>
         ELSE /\ mode' = "ainvoke"
              /\ pc' = "nexus_intro"
              /\ script_lines' = <<>>
              /\ audio_segments' = <<>>
              /\ conversation_history' = <<>>
              /\ current_turn' = 0
              /\ current_speaker' = "NEXUS"
    /\ NoLedger
    /\ UNCHANGED <<llmVars, sfVars, toolVars, impl, max_turns, i, final_state, outcome, master, transcript, turn_failed>>

\* generate_podcast after _run_with_events returned (lines 684-732)
GraphFinalize ==
    /\ impl = "graph"
    /\ pc = "finalize"
    /\ master' = IF final_state.audio_segments # <<>>
                 THEN File(final_state.audio_segments) ELSE master
    /\ transcript' = File(final_state.script_lines)
    /\ outcome' = "success"
    /\ pc' = "done"
    /\ NoLedger
    /\ UNCHANGED <<llmVars, sfVars, toolVars, impl, max_turns, script_lines, audio_segments, conversation_history, i,
                   current_turn, current_speaker, mode, final_state, turn_failed>>

\* The interpreter exits after the session returned or raised: the atexit handler
\* _cleanup removes every path of TMP that exists.
ProcessExit ==
    /\ pc \in {"done", "raised"}
    /\ ~exited
    /\ exited' = TRUE
    /\ tmp_files' = tmp_files \ TMP
    /\ UNCHANGED <<llmVars, sfVars, toolVars, impl, max_turns, pc, script_lines, audio_segments,
                   conversation_history, i, current_turn, current_speaker, mode, final_state,
                   outcome, master, transcript, turn_failed, events>>

\* ============================================================ session: Spec
InitLLMIdle ==
    /\ llm_module = "none" /\ llm_pc = "idle" /\ system = <<>> /\ user = <<>> /\ max_tokens = 0 /\ temperature = 0
    /\ calls = <<>> /\ out = <<>> /\ llm_result = NoResult /\ llm_error = "none"
InitSoftIdle ==
    /\ sf_pc = "idle" /\ sf_in = <<>> /\ sf_out = <<>>
\* last_openings = {} ; no turn has inserted an opener
InitOpenIdle ==
    /\ last_open = [r \in {"RECO", "STAT"} |-> ""]
    /\ open_prev = [r \in {"RECO", "STAT"} |-> ""]
    /\ open_now = [r \in {"RECO", "STAT"} |-> ""]
NoValue == [none |-> TRUE]
InitFnIdle ==
    /\ fn_pc = "idle" /\ fn_arg = NoValue /\ fn_ret = NoValue
InitToolsIdle == InitOpenIdle /\ InitFnIdle

InitSession ==
    /\ impl \in {"engine", "graph"}
    /\ \E t \in 0..MaxTurns :
          max_turns = IF impl = "engine" THEN ClampTurns(t) ELSE t
    /\ pc = "nexus_intro"
    /\ script_lines = <<>>
    /\ audio_segments = <<>>
    /\ conversation_history = <<>>
    /\ i = 0
    /\ current_turn = 0
    /\ current_speaker = "NEXUS"
    /\ mode = IF impl = "graph" THEN "stream" ELSE "none"
    /\ final_state = NoState
    /\ outcome = "running"
    /\ master = NoFile
    /\ transcript = NoFile
    /\ turn_failed = FALSE
    /\ events = <<>>
    /\ tmp_files = {}
    /\ exited = FALSE

Init == InitSession /\ InitLLMIdle /\ InitSoftIdle /\ InitToolsIdle

Next ==
    \/ \E s \in BOOLEAN : EngineFixedLine(s)
    \/ \E l, s \in BOOLEAN : EngineTopicIntro(l, s)
    \/ \E l, s \in BOOLEAN : EngineRecoTurn(l, s)
    \/ \E l, s \in BOOLEAN : EngineStatTurn(l, s)
    \/ EngineWrite
    \/ \E s \in BOOLEAN : GraphFixedNode(s)
    \/ \E l, s \in BOOLEAN : GraphTopicIntro(l, s)
    \/ \E l, s \in BOOLEAN : GraphRecoTurn(l, s)
    \/ \E l, s \in BOOLEAN : GraphStatTurn(l, s)
    \/ \E t \in BOOLEAN : GraphStreamEnd(t)
    \/ GraphPostStream
    \/ GraphFinalize
    \/ ProcessExit

Spec == Init /\ [][Next]_vars

\* ============================================================ session: claims
\* The k-th turn of a session with budget n, as the specification orders them:
\* HostIntro, AdvisorIntro, AnalystIntro, HostTopicIntro, n x (AdvisorTurn,
\* AnalystTurn), HostOutro.
ExpectedTurn(k, n) ==
    CASE k = 1 -> Line("Agent Nexus", "NEXUS_INTRO", 0)
      [] k = 2 -> Line("Agent Reco", "RECO_INTRO", 0)
      [] k = 3 -> Line("Agent Stat", "STAT_INTRO", 0)
      [] k = 4 -> Line("Agent Nexus", "nexus_topic_intro", 0)
      [] k = 2 * n + 5 -> Line("Agent Nexus", "NEXUS_OUTRO", 0)
      [] OTHER -> IF (k - 5) % 2 = 0
                    THEN Line("Agent Reco", "reco_response", ((k - 5) \div 2) + 1)
                    ELSE Line("Agent Stat", "stat_response", ((k - 5) \div 2) + 1)
Expected(n) == [k \in 1..(2 * n + 5) |-> ExpectedTurn(k, n)]

\* The run has produced the closing line.
OutroDone == script_lines # <<>> /\ script_lines[Len(script_lines)].text = "NEXUS_OUTRO"

CountText(lines, text) == Cardinality({k \in 1..Len(lines) : lines[k].text = text})

C2_ExactlyNPairs ==
    (impl = "graph" /\ OutroDone) =>
        /\ CountText(script_lines, "reco_response") = max_turns
        /\ CountText(script_lines, "stat_response") = max_turns
        /\ \A k \in 1..(Len(script_lines) - 1) :
              script_lines[k].text = "reco_response" =>
                  script_lines[k + 1].text = "stat_response"

\* C3: at every turn boundary, and when a synthesis call has raised, the script-line
\* list and the audio-segment list have the same length and entry k of each belongs
\* to the same turn.
C3_ScriptMatchesAudio ==
    /\ Len(script_lines) = Len(audio_segments)
    /\ \A k \in 1..Min(Len(script_lines), Len(audio_segments)) :
          /\ script_lines[k].label = Label(audio_segments[k].role)
          /\ script_lines[k].text = audio_segments[k].text
          /\ script_lines[k].pair = audio_segments[k].pair

\* C10: once a turn's model call or synthesis call has failed, the session writes
\* no final audio file and no transcript, does not return success, and ends with
\* the error raised to its caller.
C10_NoPartialArtifact ==
    turn_failed =>
        /\ master = NoFile
        /\ transcript = NoFile
        /\ outcome # "success"
        /\ pc \in {"done", "raised"} => outcome = "error"

\* The steps that issue a model call or a synthesis call on behalf of the session.
CallingSteps ==
    {"nexus_intro", "reco_intro", "stat_intro", "nexus_topic_intro", "reco_turn",
     "stat_turn", "nexus_outro"}

\* C11: once a model or synthesis call of a session has failed, the session issues no
\* further model or synthesis call: it is neither continued nor started again from the
\* host intro.
C11_NoCallAfterFailure ==
    turn_failed => pc \notin CallingSteps


\* ============================================================ text
\* A text is a sequence of one-character strings.
Whitespace == {" ", "\n", "\t"}
Terminators == {".", "!", "?"}
\* The grave accent (U+0060) cannot be written inside a string of this language;
\* the one-element text unit "GRAVE" stands for that single character.
Grave == "GRAVE"
\* re character class of ensure_complete_sentence: grave accent, *, _, #, >
Markers == {Grave, "*", "_", "#", ">"}

UpperChars == <<"A", "B", "C", "D", "E", "F", "G", "H", "I", "J", "K", "L", "M", "N", "O", "P", "Q", "R", "S", "T", "U", "V", "W", "X", "Y", "Z">>
LowerChars == <<"a", "b", "c", "d", "e", "f", "g", "h", "i", "j", "k", "l", "m", "n", "o", "p", "q", "r", "s", "t", "u", "v", "w", "x", "y", "z">>
Digits == {"0", "1", "2", "3", "4", "5", "6", "7", "8", "9"}
IsUpper(c) == \E k \in 1..Len(UpperChars) : UpperChars[k] = c
IsLower(c) == \E k \in 1..Len(LowerChars) : LowerChars[k] = c
\* \w of the regular expressions
IsWordChar(c) == IsUpper(c) \/ IsLower(c) \/ c \in Digits \/ c = "_"
ToLower(c) ==
    IF IsUpper(c) THEN LowerChars[CHOOSE k \in 1..Len(UpperChars) : UpperChars[k] = c] ELSE c
LowerText(t) == [k \in 1..Len(t) |-> ToLower(t[k])]

\* The literal p occurs in t at position k.
OccursAt(t, p, k) ==
    /\ k >= 1
    /\ k + Len(p) - 1 <= Len(t)
    /\ \A j \in 1..Len(p) : t[k + j - 1] = p[j]
Contains(t, p) == \E k \in 1..Len(t) : OccursAt(t, p, k)

\* \b between t[k-1] and t[k] (positions outside the text are not word characters)
WordBoundary(t, k) ==
    LET before == k - 1 >= 1 /\ k - 1 <= Len(t) /\ IsWordChar(t[k - 1])
        after  == k >= 1 /\ k <= Len(t) /\ IsWordChar(t[k])
    IN  before # after

\* str.strip()
RECURSIVE LStrip(_)
LStrip(t) == IF t # <<>> /\ Head(t) \in Whitespace THEN LStrip(Tail(t)) ELSE t
RECURSIVE RStrip(_)
RStrip(t) ==
    IF t # <<>> /\ t[Len(t)] \in Whitespace THEN RStrip(SubSeq(t, 1, Len(t) - 1)) ELSE t
Strip(t) == RStrip(LStrip(t))

\* re.sub(r'[C]+', ' ', t) for a character class C: every maximal run becomes one space.
RECURSIVE SubRuns(_, _, _)
SubRuns(t, class, minrun) ==
    IF t = <<>> THEN <<>>
    ELSE IF Head(t) \in class
      THEN LET run == CHOOSE n \in 1..Len(t) :
                         /\ \A j \in 1..n : t[j] \in class
                         /\ (n = Len(t) \/ t[n + 1] \notin class)
           IN  IF run >= minrun
                 THEN <<" ">> \o SubRuns(SubSeq(t, run + 1, Len(t)), class, minrun)
                 ELSE SubSeq(t, 1, run) \o SubRuns(SubSeq(t, run + 1, Len(t)), class, minrun)
      ELSE <<Head(t)>> \o SubRuns(Tail(t), class, minrun)

\* re.sub(r'\bP\b', repl, t) where P is one of the literals `pats` (alternatives of
\* equal length, as in [Dd]o not): leftmost, non-overlapping matches.
RECURSIVE SubWordFrom(_, _, _, _)
SubWordFrom(t, k, pats, repl) ==
    IF k > Len(t) THEN <<>>
    ELSE IF \E p \in pats : /\ OccursAt(t, p, k)
                            /\ WordBoundary(t, k)
                            /\ WordBoundary(t, k + Len(p))
      THEN LET p == CHOOSE q \in pats : OccursAt(t, q, k)
           IN  repl \o SubWordFrom(t, k + Len(p), pats, repl)
      ELSE <<t[k]>> \o SubWordFrom(t, k + 1, pats, repl)
SubWord(t, pats, repl) == SubWordFrom(t, 1, pats, repl)

\* str.replace(old, new)
RECURSIVE ReplaceFrom(_, _, _, _)
ReplaceFrom(t, k, old, new) ==
    IF k > Len(t) THEN <<>>
    ELSE IF OccursAt(t, old, k)
      THEN new \o ReplaceFrom(t, k + Len(old), old, new)
      ELSE <<t[k]>> \o ReplaceFrom(t, k + 1, old, new)
Replace(t, old, new) == ReplaceFrom(t, 1, old, new)

\* ------------------------------------------------------------ _soften
\* t = re.sub(r'\b[Ii]gnore\b', 'do not rely on', t)
SoftenIgnore(t) == SubWord(t, {<<"i", "g", "n", "o", "r", "e">>, <<"I", "g", "n", "o", "r", "e">>}, <<"d", "o", " ", "n", "o", "t", " ", "r", "e", "l", "y", " ", "o", "n">>)

_soften(text) ==
    LET t1 == SubWord(text, {<<"s", "o", "l", "e", " ", "f", "a", "c", "t", "u", "a", "l", " ", "s", "o", "u", "r", "c", "e">>, <<"S", "o", "l", "e", " ", "f", "a", "c", "t", "u", "a", "l", " ", "s", "o", "u", "r", "c", "e">>},
                      <<"p", "r", "i", "m", "a", "r", "y", " ", "c", "o", "n", "t", "e", "x", "t">>)
        t2 == SubWord(t1, {<<"d", "o", " ", "n", "o", "t">>, <<"D", "o", " ", "n", "o", "t">>}, <<"p", "l", "e", "a", "s", "e", " ", "a", "v", "o", "i", "d">>)
        t3 == SubWord(t2, {<<"d", "o", "n", "'", "t">>, <<"D", "o", "n", "'", "t">>}, <<"p", "l", "e", "a", "s", "e", " ", "a", "v", "o", "i", "d">>)
        t4 == SoftenIgnore(t3)
    IN  Replace(Replace(t4, <<"d", "e", "b", "a", "t", "e">>, <<"d", "i", "s", "c", "u", "s", "s", "i", "o", "n">>), <<"D", "e", "b", "a", "t", "e">>, <<"D", "i", "s", "c", "u", "s", "s", "i", "o", "n">>)

\* ------------------------------------------------------------ _looks_ok
\* str.isupper(): at least one cased character and no lower-case one
IsUpperText(t) ==
    /\ \E k \in 1..Len(t) : IsUpper(t[k])
    /\ \A k \in 1..Len(t) : ~IsLower(t[k])
CountChar(t, c) == Cardinality({k \in 1..Len(t) : t[k] = c})
\* re.search(r'http[s]?://', text)
HasUrl(t) == Contains(t, <<"h", "t", "t", "p", ":", "/", "/">>) \/ Contains(t, <<"h", "t", "t", "p", "s", ":", "/", "/">>)

MinOkLen == 8
MaxOkPeriods == 3
_looks_ok(text) ==
    /\ text # <<>>
    /\ Len(Strip(text)) >= MinOkLen
    /\ CountChar(text, ".") <= MaxOkPeriods
    /\ ~IsUpperText(text)
    /\ ~HasUrl(text)

\* ------------------------------------------------------------ ensure_complete_sentence
ensure_complete_sentence(text) ==
    LET t1 == Strip(SubRuns(text, Markers, 1))
        t2 == SubRuns(t1, Whitespace, 2)
    IN  IF t2 # <<>> /\ t2[Len(t2)] \notin Terminators THEN Append(t2, ".") ELSE t2

\* ============================================================ llm_safe
MaxOutLen == 2

\* Every text of at most n characters over the alphabet.
RECURSIVE TextsUpTo(_, _)
TextsUpTo(alphabet, n) ==
    IF n = 0 THEN {<<>>}
    ELSE LET shorter == TextsUpTo(alphabet, n - 1)
         IN  shorter \cup {Append(t, c) : t \in {u \in shorter : Len(u) = n - 1}, c \in alphabet}

\* Provider outputs: every short text over a letter, a terminator and a marker, a
\* blank text, and longer samples on both sides of each test of _looks_ok.
OutputAlphabet == {"a", ".", "*"}
SampleOutputs ==
    { <<" ", " ">>,
      <<"a", "b", "c", "d", "e", "f", "g", "h">>,
      <<"A", "B", "C", "D", "E", "F", "G", "H">>,
      <<"C", "o", "s", "t", "s", " ", "f", "e", "l", "l", ".">>,
      <<" ", "*", "*", "C", "o", "s", "t", "s", "*", "*", " ", "f", "e", "l", "l", " ", " ">>,
      <<"a", ".", "b", ".", "c", ".", "d", ".", "e">>,
      <<"s", "e", "e", " ", "h", "t", "t", "p", ":", "/", "/", "x", ".", "y">>,
      <<"I", "s", " ", "i", "t", " ", "u", "p", "?">>,
      <<"#", " ", "*", " ", "_", " ", ">">> }
Outputs == TextsUpTo(OutputAlphabet, MaxOutLen) \cup SampleOutputs

\* r.choices[0].message.content: a text or None
NoContent == [none |-> TRUE, text |-> <<>>]
Contents == {NoContent} \cup {[none |-> FALSE, text |-> t] : t \in Outputs}

\* What oai.chat.completions.create does: it returns a completion or raises.
BadRequestError == "BadRequestError"
\* any other Exception (connection error, timeout, rate limit, ...)
OtherError == "OtherError"
Responses ==
    {[kind |-> "ok", content |-> c] : c \in Contents}
        \cup {[kind |-> e, content |-> NoContent] : e \in {BadRequestError, OtherError}}

\* return (r.choices[0].message.content or "").strip()
_llm_sync(content) == Strip(IF content.none THEN <<>> ELSE content.text)

\* One _llm_sync call as it was sent, and how it ended. `check` is the verdict of
\* _looks_ok where llm_safe applied it to the call's output, "none" where it did not.
Call(sys, usr, mt, temp, tier, kind, check) ==
    [system |-> sys, user |-> usr, max_tokens |-> mt, temperature |-> temp,
     tier |-> tier, outcome |-> kind, check |-> check]

\* a variant without the floor of 80
MutRetryMaxTokens(mt) == mt \div 2
\* max_tokens=max(80, max_tokens // 2)
RetryMaxTokens(mt) == Max(80, mt \div 2)
\* temperature=min(0.8, temperature + 0.1)
RetryTemperature(temp) == Min(80, temp + 10)
\* a variant without the floor of 80
MutSoftMaxTokens(mt) == mt - 20
\* max_tokens=max(80, max_tokens - 20)
SoftMaxTokens(mt) == Max(80, mt - 20)
\* temperature=max(0.1, temperature - 0.2)
SoftTemperature(temp) == Max(10, temp - 20)

\* " Always keep a professional, neutral tone and comply with safety policies."
SoftSuffix ==
    <<" ", "A", "l", "w", "a", "y", "s", " ", "k", "e", "e", "p", " ", "a", " ", "p", "r", "o", "f", "e", "s", "s", "i", "o", "n", "a", "l", ",", " ", "n", "e", "u", "t", "r", "a", "l", " ", "t", "o", "n", "e", " ", "a", "n", "d", " ", "c", "o", "m", "p", "l", "y", " ", "w", "i", "t", "h", " ", "s", "a", "f", "e", "t", "y", " ", "p", "o", "l", "i", "c", "i", "e", "s", ".">>
soft_sys(sys) == _soften(sys) \o SoftSuffix
soft_user(usr) == _soften(usr)

\* Models_podcast.py:
\* "You are a professional assistant; produce one safe, neutral, evidence-based
\*  sentence grounded in the provided context."
ModelsMinimalSystem ==
    <<"Y", "o", "u", " ", "a", "r", "e", " ", "a", " ", "p", "r", "o", "f", "e", "s", "s", "i", "o", "n", "a", "l", " ", "a", "s", "s", "i", "s", "t", "a", "n", "t", ";", " ", "p", "r", "o", "d", "u", "c", "e", " ", "o", "n", "e", " ", "s", "a", "f", "e", ",", " ", "n", "e", "u", "t", "r", "a", "l", ",", " ", "e", "v", "i", "d", "e", "n", "c", "e", "-", "b", "a", "s", "e", "d", " ", "s", "e", "n", "t", "e", "n", "c", "e", " ", "g", "r", "o", "u", "n", "d", "e", "d", " ", "i", "n", " ", "t", "h", "e", " ", "p", "r", "o", "v", "i", "d", "e", "d", " ", "c", "o", "n", "t", "e", "x", "t", ".">>
\* "Summarize key metric insights and propose one safe, low-regret action in one sentence."
ModelsMinimalUser ==
    <<"S", "u", "m", "m", "a", "r", "i", "z", "e", " ", "k", "e", "y", " ", "m", "e", "t", "r", "i", "c", " ", "i", "n", "s", "i", "g", "h", "t", "s", " ", "a", "n", "d", " ", "p", "r", "o", "p", "o", "s", "e", " ", "o", "n", "e", " ", "s", "a", "f", "e", ",", " ", "l", "o", "w", "-", "r", "e", "g", "r", "e", "t", " ", "a", "c", "t", "i", "o", "n", " ", "i", "n", " ", "o", "n", "e", " ", "s", "e", "n", "t", "e", "n", "c", "e", ".">>
\* podcast_engine.py:
\* "You are a professional analyst; produce one safe, neutral sentence grounded in
\*  the provided context."
EngineMinimalSystem ==
    <<"Y", "o", "u", " ", "a", "r", "e", " ", "a", " ", "p", "r", "o", "f", "e", "s", "s", "i", "o", "n", "a", "l", " ", "a", "n", "a", "l", "y", "s", "t", ";", " ", "p", "r", "o", "d", "u", "c", "e", " ", "o", "n", "e", " ", "s", "a", "f", "e", ",", " ", "n", "e", "u", "t", "r", "a", "l", " ", "s", "e", "n", "t", "e", "n", "c", "e", " ", "g", "r", "o", "u", "n", "d", "e", "d", " ", "i", "n", " ", "t", "h", "e", " ", "p", "r", "o", "v", "i", "d", "e", "d", " ", "c", "o", "n", "t", "e", "x", "t", ".">>
\* "Summarize cross-metric trends and propose one action in a single safe sentence."
EngineMinimalUser ==
    <<"S", "u", "m", "m", "a", "r", "i", "z", "e", " ", "c", "r", "o", "s", "s", "-", "m", "e", "t", "r", "i", "c", " ", "t", "r", "e", "n", "d", "s", " ", "a", "n", "d", " ", "p", "r", "o", "p", "o", "s", "e", " ", "o", "n", "e", " ", "a", "c", "t", "i", "o", "n", " ", "i", "n", " ", "a", " ", "s", "i", "n", "g", "l", "e", " ", "s", "a", "f", "e", " ", "s", "e", "n", "t", "e", "n", "c", "e", ".">>
minimal_system(module) == IF module = "models" THEN ModelsMinimalSystem ELSE EngineMinimalSystem
minimal_user(module) == IF module = "models" THEN ModelsMinimalUser ELSE EngineMinimalUser
MinimalMaxTokens == 100
MinimalTemperature == 20

\* a variant whose handler starts the first call over
MutTierOneExcept(kind) == IF kind = BadRequestError THEN "call1" ELSE "raised"
\* `except BadRequestError:` around the first call and the acceptability retry:
\* the clause catches the policy rejection only; anything else leaves llm_safe.
TierOneExcept(kind) == IF kind = BadRequestError THEN "soft" ELSE "raised"
\* a variant that lets a second policy rejection escape
MutSoftExcept(kind) == IF kind = BadRequestError THEN "raised" ELSE "minimal"
\* `except Exception:` around the softened call catches every error.
SoftExcept(kind) == "minimal"

\* llm_safe returns ensure_complete_sentence(out)
LLMReturn(calls2, out2) ==
    /\ calls' = calls2
    /\ out' = out2
    /\ llm_pc' = "returned"
    /\ llm_result' = Returned(ensure_complete_sentence(out2))
    /\ llm_error' = llm_error
\* an error leaves the current try block: to the handler `next`, or out of llm_safe
LLMExcept(calls2, kind, next) ==
    /\ calls' = calls2
    /\ out' = out
    /\ llm_pc' = next
    /\ llm_result' = llm_result
    /\ llm_error' = IF next = "raised" THEN kind ELSE llm_error

LLMFrame == UNCHANGED <<llm_module, system, user, max_tokens, temperature, sessVars, sfVars, toolVars>>

\* out = _llm_sync(system, user, max_tokens, temperature); if not _looks_ok(out): ...
LLMFirstCall(resp) ==
    /\ llm_pc = "call1"
    /\ LET sent(check) == Append(calls, Call(system, user, max_tokens, temperature,
                                             "first", resp.kind, check))
           o == _llm_sync(resp.content)
       IN  IF resp.kind = "ok"
             THEN IF _looks_ok(o)
                    THEN LLMReturn(sent("passed"), o)
                    ELSE /\ calls' = sent("failed")
                         /\ out' = o
                         /\ llm_pc' = "call2"
                         /\ UNCHANGED <<llm_result, llm_error>>
             ELSE LLMExcept(sent("none"), resp.kind, TierOneExcept(resp.kind))
    /\ LLMFrame

\* out = _llm_sync(system, user, max(80, max_tokens // 2), min(0.8, temperature + 0.1))
LLMAcceptRetry(resp) ==
    /\ llm_pc = "call2"
    /\ LET sent == Append(calls, Call(system, user, RetryMaxTokens(max_tokens),
                                      RetryTemperature(temperature), "retry",
                                      resp.kind, "none"))
       IN  IF resp.kind = "ok"
             THEN LLMReturn(sent, _llm_sync(resp.content))
             ELSE LLMExcept(sent, resp.kind, TierOneExcept(resp.kind))
    /\ LLMFrame

\* out = _llm_sync(soft_sys, soft_user, max(80, max_tokens - 20), max(0.1, temperature - 0.2))
LLMSoftCall(resp) ==
    /\ llm_pc = "soft"
    /\ LET sent == Append(calls, Call(soft_sys(system), soft_user(user),
                                      SoftMaxTokens(max_tokens),
                                      SoftTemperature(temperature), "soft",
                                      resp.kind, "none"))
       IN  IF resp.kind = "ok"
             THEN LLMReturn(sent, _llm_sync(resp.content))
             ELSE LLMExcept(sent, resp.kind, SoftExcept(resp.kind))
    /\ LLMFrame

\* out = _llm_sync(minimal_system, minimal_user, max_tokens=100, temperature=0.2)
LLMMinimalCall(resp) ==
    /\ llm_pc = "minimal"
    /\ LET sent == Append(calls, Call(minimal_system(llm_module), minimal_user(llm_module),
                                      MinimalMaxTokens, MinimalTemperature, "minimal",
                                      resp.kind, "none"))
       IN  IF resp.kind = "ok"
             THEN LLMReturn(sent, _llm_sync(resp.content))
             ELSE LLMExcept(sent, resp.kind, "raised")
    /\ LLMFrame

\* Callers' instruction/prompt pairs, with the phrases _soften rewrites.
PromptSamples ==
    { [system |-> <<"D", "o", " ", "n", "o", "t", " ", "d", "e", "b", "a", "t", "e", ".", " ", "I", "g", "n", "o", "r", "e", " ", "r", "u", "m", "o", "u", "r", "s", ".">>,
       user   |-> <<"I", "G", "N", "O", "R", "E", " ", "n", "o", "i", "s", "e", ";", " ", "d", "o", "n", "'", "t", " ", "g", "u", "e", "s", "s", ".">>],
      [system |-> <<"U", "s", "e", " ", "t", "h", "e", " ", "s", "o", "l", "e", " ", "f", "a", "c", "t", "u", "a", "l", " ", "s", "o", "u", "r", "c", "e", " ", "o", "n", "l", "y", ".">>,
       user   |-> <<"R", "e", "p", "o", "r", "t", " ", "t", "h", "e", " ", "d", "a", "t", "a", ".">>] }
\* Callers' (max_tokens, temperature): llm's defaults 130 and 0.45, a pair under the
\* floors of 80 and 0.1, and a pair with an odd max_tokens whose temperature passes
\* the cap of 0.8 when raised.
ParamSamples ==
    { [max_tokens |-> 130, temperature |-> 45],
      [max_tokens |-> 90,  temperature |-> 5],
      [max_tokens |-> 171, temperature |-> 75] }

InitSessionIdle ==
    /\ impl = "none" /\ max_turns = 0 /\ pc = "idle"
    /\ script_lines = <<>> /\ audio_segments = <<>> /\ conversation_history = <<>>
    /\ i = 0 /\ current_turn = 0 /\ current_speaker = "NEXUS" /\ mode = "none"
    /\ final_state = NoState /\ outcome = "running"
    /\ master = NoFile /\ transcript = NoFile /\ turn_failed = FALSE
    /\ events = <<>> /\ tmp_files = {} /\ exited = FALSE

InitLLM ==
    /\ llm_module \in {"models", "engine"}
    /\ llm_pc = "call1"
    /\ \E p \in PromptSamples : system = p.system /\ user = p.user
    /\ \E q \in ParamSamples : max_tokens = q.max_tokens /\ temperature = q.temperature
    /\ calls = <<>>
    /\ out = <<>>
    /\ llm_result = NoResult
    /\ llm_error = "none"
    /\ InitSessionIdle
    /\ InitSoftIdle
    /\ InitToolsIdle

NextLLM ==
    \/ \E resp \in Responses : LLMFirstCall(resp)
    \/ \E resp \in Responses : LLMAcceptRetry(resp)
    \/ \E resp \in Responses : LLMSoftCall(resp)
    \/ \E resp \in Responses : LLMMinimalCall(resp)

SpecLLM == InitLLM /\ [][NextLLM]_vars

\* ============================================================ llm_safe: claims
LastCall == calls[Len(calls)]
Lower8 == <<"a", "b", "c", "d", "e", "f", "g", "h">>

\* C4: llm_safe never returns an empty string: whatever the provider answers (empty,
\* blank or marker-only outputs included), a returned value is non-empty and ends in
\* '.', '!' or '?'.
C4_NeverEmpty ==
    llm_result.returned =>
        /\ llm_result.value # <<>>
        /\ llm_result.value[Len(llm_result.value)] \in Terminators

\* C5: the only error llm_safe lets out is a failure of the final fixed-prompt call;
\* an error raised by an earlier call never reaches the caller.
C5_OnlyFinalFailureSurfaces ==
    llm_pc = "raised" => LastCall.tier = "minimal"

\* C6: when the first call and the softened retry are both rejected by policy, the
\* third call is the last one, it sends the fixed minimal pair with max_tokens 100 and
\* temperature 0.2, no acceptability check is applied to its output, and when it
\* succeeds llm_safe returns that output after sentence completion.
C6_MinimalAfterTwoRejections ==
    (/\ Len(calls) >= 2
     /\ calls[1].outcome = BadRequestError
     /\ calls[2].outcome = BadRequestError) =>
        /\ calls[2].tier = "soft"
        /\ Len(calls) <= 3
        /\ (Len(calls) = 2) <=> (llm_pc = "minimal")
        /\ Len(calls) = 3 =>
              /\ calls[3].system = minimal_system(llm_module)
              /\ calls[3].user = minimal_user(llm_module)
              /\ calls[3].max_tokens = 100
              /\ calls[3].temperature = 20
              /\ calls[3].check = "none"
              /\ calls[3].outcome = "ok" =>
                    /\ llm_pc = "returned"
                    /\ llm_result = Returned(ensure_complete_sentence(out))
\* the third call's output fails _looks_ok and is returned all the same
C6_Witness_ThirdReturned ==
    /\ Len(calls) = 3
    /\ calls[1].outcome = BadRequestError
    /\ calls[2].outcome = BadRequestError
    /\ calls[3].outcome = "ok"
    /\ llm_pc = "returned"
    /\ ~_looks_ok(out)
    /\ llm_result.value = <<"A", "B", "C", "D", "E", "F", "G", "H", ".">>

\* C7: when the first output fails _looks_ok, one more call is made with the same
\* instruction and prompt, max_tokens = max(80, max_tokens div 2) and temperature =
\* min(0.8, temperature + 0.1); its output is not checked again and the original pair
\* is sent at most these two times. When the first output passes, that call is the only
\* one and the result is the output after sentence completion: an 8-character
\* lower-case output without punctuation comes back with '.' appended.
C7_AcceptabilityRetry ==
    /\ (Len(calls) >= 1 /\ calls[1].check = "failed") =>
          /\ (Len(calls) = 1) <=> (llm_pc = "call2")
          /\ Len(calls) = 1 => ~_looks_ok(out)
          /\ Len(calls) >= 2 =>
                /\ calls[2].tier = "retry"
                /\ calls[2].system = system
                /\ calls[2].user = user
                /\ calls[2].max_tokens = Max(80, max_tokens \div 2)
                /\ calls[2].temperature = Min(80, temperature + 10)
                /\ calls[2].check = "none"
                /\ calls[2].outcome = "ok" =>
                      /\ Len(calls) = 2
                      /\ llm_pc = "returned"
                      /\ llm_result = Returned(ensure_complete_sentence(out))
          /\ \A k \in 3..Len(calls) :
                /\ calls[k].tier \notin {"first", "retry"}
                /\ <<calls[k].system, calls[k].user>> # <<system, user>>
    /\ (Len(calls) >= 1 /\ calls[1].check = "passed") =>
          /\ Len(calls) = 1
          /\ llm_pc = "returned"
          /\ _looks_ok(out)
          /\ llm_result = Returned(ensure_complete_sentence(out))
    /\ (Len(calls) = 1 /\ calls[1].outcome = "ok" /\ out = Lower8) =>
          /\ calls[1].check = "passed"
          /\ llm_result = Returned(Append(Lower8, "."))
\* a retry with an odd max_tokens above the floor and a temperature at the cap
C7_Witness_RetryReturned ==
    /\ Len(calls) = 2
    /\ calls[1].check = "failed"
    /\ calls[2].tier = "retry"
    /\ calls[2].max_tokens = 85
    /\ calls[2].temperature = 80
    /\ llm_pc = "returned"
    /\ llm_result.value = Append(Lower8, ".")

\* C8: when the first call or the acceptability retry is rejected by policy, the next
\* call is the only softened one: it sends the softened instruction (with the
\* compliance sentence appended) and the softened prompt, max_tokens =
\* max(80, max_tokens - 20) and temperature = max(0.1, temperature - 0.2), both from
\* the caller's values; the caller's own pair is not sent again after it.
C8_SoftenedRetry ==
    \A k \in 1..Len(calls) :
        (calls[k].tier \in {"first", "retry"} /\ calls[k].outcome = BadRequestError) =>
            /\ (k = Len(calls)) <=> (llm_pc = "soft")
            /\ Len(calls) > k =>
                  /\ calls[k + 1].tier = "soft"
                  /\ calls[k + 1].system = _soften(system) \o SoftSuffix
                  /\ calls[k + 1].user = _soften(user)
                  /\ calls[k + 1].max_tokens = Max(80, max_tokens - 20)
                  /\ calls[k + 1].temperature = Max(10, temperature - 20)
                  /\ Cardinality({j \in 1..Len(calls) : calls[j].tier = "soft"}) = 1
                  /\ \A j \in (k + 1)..Len(calls) :
                        <<calls[j].system, calls[j].user>> # <<system, user>>
\* the acceptability retry is rejected, with both floors in force
C8_Witness_RetryRejected ==
    /\ Len(calls) = 3
    /\ calls[2].tier = "retry"
    /\ calls[2].outcome = BadRequestError
    /\ calls[3].tier = "soft"
    /\ calls[3].max_tokens = 80
    /\ calls[3].temperature = 10
    /\ max_tokens = 90
    /\ llm_pc = "returned"

\* ============================================================ _soften as a function
MaxWords == 2

\* Words the inputs are made of: the phrases _soften looks for, in several
\* capitalisations, and words that only resemble them.
Vocabulary ==
    { <<"i", "g", "n", "o", "r", "e">>, <<"I", "g", "n", "o", "r", "e">>, <<"I", "G", "N", "O", "R", "E">>, <<"i", "g", "n", "o", "r", "e", "d">>,
      <<"d", "o">>, <<"n", "o", "t">>, <<"D", "o", "n", "'", "t">>, <<"D", "O", " ", "N", "O", "T">>,
      <<"d", "e", "b", "a", "t", "e">>, <<"D", "e", "b", "a", "t", "e">>, <<"s", "o", "l", "e", " ", "f", "a", "c", "t", "u", "a", "l", " ", "s", "o", "u", "r", "c", "e">>, <<"d", "a", "t", "a", ",">> }

\* " ".join(words)
RECURSIVE Join(_)
Join(words) ==
    IF words = <<>> THEN <<>>
    ELSE IF Len(words) = 1 THEN words[1]
    ELSE words[1] \o <<" ">> \o Join(Tail(words))

RECURSIVE WordLists(_)
WordLists(n) ==
    IF n = 0 THEN {<<>>}
    ELSE LET shorter == WordLists(n - 1)
         IN  shorter \cup {Append(ws, w) : ws \in {x \in shorter : Len(x) = n - 1},
                                            w \in Vocabulary}
SoftInputs == {Join(ws) : ws \in WordLists(MaxWords)}

InitSoft ==
    /\ sf_pc = "ready"
    /\ sf_in \in SoftInputs
    /\ sf_out = <<>>
    /\ InitSessionIdle
    /\ InitLLMIdle
    /\ InitToolsIdle

\* sf_out = _soften(sf_in)
SoftenApply ==
    /\ sf_pc = "ready"
    /\ sf_out' = _soften(sf_in)
    /\ sf_pc' = "done"
    /\ UNCHANGED <<sf_in, sessVars, llmVars, toolVars>>

NextSoft == SoftenApply

SpecSoft == InitSoft /\ [][NextSoft]_vars

\* The word w occurs in t as a whole word, in any capitalisation.
HasWordAnyCase(t, w) ==
    \E k \in 1..Len(t) :
        /\ OccursAt(LowerText(t), w, k)
        /\ WordBoundary(t, k)
        /\ WordBoundary(t, k + Len(w))

\* C9: the softened text contains no instance of the word "ignore", whatever the
\* capitalisation of the word in the input.
C9_NoIgnoreWord ==
    sf_pc = "done" => ~HasWordAnyCase(sf_out, <<"i", "g", "n", "o", "r", "e">>)

\* ============================================================ vary_opening
Roles == {"RECO", "STAT"}
\* OPENERS (podcast_engine.py, Reco_tools.py)
OPENERS ==
    [RECO |-> {"Given that", "Looking at this", "From that signal", "On those figures",
               "Based on the last month", "If we take the trend", "Against YTD context",
               "From a planning view"},
     STAT |-> {"Data suggests", "From the integrity check", "The safer interpretation",
               "Statistically speaking", "Given the variance profile",
               "From the control limits", "Relative to seasonality",
               "From the timestamp audit"}]

\* What vary_opening reads of the text after strip_forbidden: whether its first word,
\* lower-cased and stripped of ",. ", is a forbidden opener, is missing, or is any
\* other word.
FirstKinds == {"forbidden", "empty", "plain"}
\* if first in FORBIDDEN[role] or not first or random.random() < 0.4:
InsertsOpener(first, below40) == first = "forbidden" \/ first = "empty" \/ below40

\* a variant that draws again from the whole pool
MutRedrawPool(role, cand) == OPENERS[role]
\* pool = [c for c in OPENERS[role] if c != cand]
RedrawPool(role, cand) == {c \in OPENERS[role] : c # cand}

\* vary_opening(text, role, last_open): cand is the first random.choice, again the
\* second one (used only when the first repeats last_open[role]).
VaryOpening(role, first, below40, cand, again) ==
    /\ pc = "idle" /\ llm_pc = "idle" /\ sf_pc = "idle"
    /\ cand \in OPENERS[role]
    /\ LET pool == RedrawPool(role, cand)
           chosen == IF last_open[role] = cand
                       THEN (IF pool # {} THEN again ELSE cand)
                       ELSE cand
       IN  /\ (last_open[role] = cand /\ pool # {}) => again \in pool
           /\ (last_open[role] # cand \/ pool = {}) => again = cand
           /\ IF InsertsOpener(first, below40)
                THEN /\ last_open' = [last_open EXCEPT ![role] = chosen]
                     /\ open_now' = [open_now EXCEPT ![role] = chosen]
                ELSE /\ last_open' = last_open
                     /\ open_now' = [open_now EXCEPT ![role] = ""]
    /\ open_prev' = [open_prev EXCEPT ![role] = open_now[role]]
    /\ UNCHANGED <<sessVars, llmVars, sfVars, fnVars>>

InitOpen == InitSessionIdle /\ InitLLMIdle /\ InitSoftIdle /\ InitOpenIdle /\ InitFnIdle

NextOpen ==
    \E role \in Roles, first \in FirstKinds, below40 \in BOOLEAN :
        \E cand, again \in OPENERS[role] : VaryOpening(role, first, below40, cand, again)

SpecOpen == InitOpen /\ [][NextOpen]_vars

\* C12: when two consecutive turns of a persona both insert an opener, the two
\* inserted openers differ, whatever the random choices.
C12_OpenerRotation ==
    \A r \in Roles :
        (open_prev[r] # "" /\ open_now[r] # "") => open_prev[r] # open_now[r]
\* the first choice repeated the previous opener and was drawn again
C12_Witness_Rotated ==
    /\ open_prev["RECO"] = "Given that"
    /\ open_now["RECO"] = "Looking at this"
    /\ open_prev["STAT"] = "Data suggests"
    /\ open_now["STAT"] = "Statistically speaking"

\* ============================================================ _add_conversation_dynamics
MaxPair == 3

\* any(word in text.lower() for word in words)
HasAny(text, words) == \E w \in words : Contains(LowerText(text), w)

ImportantWords == {<<"i", "m", "p", "o", "r", "t", "a", "n", "t">>, <<"c", "r", "u", "c", "i", "a", "l">>, <<"c", "r", "i", "t", "i", "c", "a", "l">>, <<"s", "i", "g", "n", "i", "f", "i", "c", "a", "n", "t">>, <<"e", "s", "s", "e", "n", "t", "i", "a", "l">>}
ContrastWords ==
    {<<"b", "u", "t">>, <<"h", "o", "w", "e", "v", "e", "r">>, <<"a", "l", "t", "h", "o", "u", "g", "h">>, <<"d", "i", "s", "a", "g", "r", "e", "e">>, <<"c", "h", "a", "l", "l", "e", "n", "g", "e">>, <<"c", "o", "n", "t", "r", "a", "r", "y">>}
SurprisingWords ==
    {<<"s", "u", "r", "p", "r", "i", "s", "i", "n", "g">>, <<"s", "h", "o", "c", "k", "i", "n", "g">>, <<"u", "n", "e", "x", "p", "e", "c", "t", "e", "d">>, <<"d", "r", "a", "m", "a", "t", "i", "c">>, <<"r", "e", "m", "a", "r", "k", "a", "b", "l", "e">>}
AgreeWords == {<<"a", "g", "r", "e", "e">>, <<"r", "i", "g", "h", "t">>, <<"c", "o", "r", "r", "e", "c", "t">>, <<"v", "a", "l", "i", "d">>}
\* surprise_words
surprise_words == SurprisingWords \cup {<<"c", "o", "n", "c", "e", "r", "n", "i", "n", "g">>}

\* other_agent = "Stat" if role == "RECO" else "Reco" if role == "STAT" else ""
other_agent(role) ==
    IF role = "RECO" THEN <<"S", "t", "a", "t">> ELSE IF role = "STAT" THEN <<"R", "e", "c", "o">> ELSE <<>>

address_formats(other) ==
    <<other \o <<",", " ">>, <<"Y", "o", "u", " ", "k", "n", "o", "w", ",", " ">> \o other \o <<",", " ">>>>
emphatics == <<<<"S", "u", "r", "p", "r", "i", "s", "i", "n", "g", "l", "y", ",", " ">>, <<"I", "n", "t", "e", "r", "e", "s", "t", "i", "n", "g", "l", "y", ",", " ">>, <<"R", "e", "m", "a", "r", "k", "a", "b", "l", "y", ",", " ">>, <<"U", "n", "e", "x", "p", "e", "c", "t", "e", "d", "l", "y", ",", " ">>>>
acknowledgments ==
    <<<<"I", " ", "s", "e", "e", " ", "w", "h", "a", "t", " ", "y", "o", "u", "'", "r", "e", " ", "s", "a", "y", "i", "n", "g", ",", " ">>, <<"T", "h", "a", "t", "'", "s", " ", "a", " ", "g", "o", "o", "d", " ", "p", "o", "i", "n", "t", ",", " ">>,
      <<"I", " ", "u", "n", "d", "e", "r", "s", "t", "a", "n", "d", " ", "y", "o", "u", "r", " ", "p", "e", "r", "s", "p", "e", "c", "t", "i", "v", "e", ",", " ">>, <<"Y", "o", "u", " ", "m", "a", "k", "e", " ", "a", " ", "v", "a", "l", "i", "d", " ", "o", "b", "s", "e", "r", "v", "a", "t", "i", "o", "n", ",", " ">>>>
interruptions ==
    <<<<"I", "f", " ", "I", " ", "m", "i", "g", "h", "t", " ", "a", "d", "d", ",", " ">>, <<"B", "u", "i", "l", "d", "i", "n", "g", " ", "o", "n", " ", "t", "h", "a", "t", ",", " ">>, <<"T", "o", " ", "e", "x", "p", "a", "n", "d", " ", "o", "n", " ", "y", "o", "u", "r", " ", "p", "o", "i", "n", "t", ",", " ">>,
      <<"A", "n", "o", "t", "h", "e", "r", " ", "w", "a", "y", " ", "t", "o", " ", "l", "o", "o", "k", " ", "a", "t", " ", "t", "h", "i", "s", " ", "i", "s", " ">>>>
agreements ==
    <<<<"I", " ", "a", "g", "r", "e", "e", " ", "w", "i", "t", "h", " ", "t", "h", "a", "t", " ", "a", "p", "p", "r", "o", "a", "c", "h", ",", " ">>, <<"T", "h", "a", "t", " ", "m", "a", "k", "e", "s", " ", "s", "e", "n", "s", "e", ",", " ">>,
      <<"Y", "o", "u", "'", "r", "e", " ", "r", "i", "g", "h", "t", " ", "a", "b", "o", "u", "t", " ", "t", "h", "a", "t", ",", " ">>, <<"T", "h", "a", "t", "'", "s", " ", "a", " ", "s", "o", "l", "i", "d", " ", "r", "e", "c", "o", "m", "m", "e", "n", "d", "a", "t", "i", "o", "n", ",", " ">>>>
disagreements ==
    <<<<"I", " ", "h", "a", "v", "e", " ", "a", " ", "s", "l", "i", "g", "h", "t", "l", "y", " ", "d", "i", "f", "f", "e", "r", "e", "n", "t", " ", "v", "i", "e", "w", ",", " ">>, <<"A", "n", "o", "t", "h", "e", "r", " ", "p", "e", "r", "s", "p", "e", "c", "t", "i", "v", "e", " ", "t", "o", " ", "c", "o", "n", "s", "i", "d", "e", "r", ",", " ">>,
      <<"W", "e", " ", "m", "i", "g", "h", "t", " ", "a", "p", "p", "r", "o", "a", "c", "h", " ", "t", "h", "i", "s", " ", "d", "i", "f", "f", "e", "r", "e", "n", "t", "l", "y", ",", " ">>, <<"L", "e", "t", " ", "m", "e", " ", "o", "f", "f", "e", "r", " ", "a", "n", " ", "a", "l", "t", "e", "r", "n", "a", "t", "i", "v", "e", " ", "t", "a", "k", "e", ",", " ">>>>

\* random.choice(options): `pick` is the value random drew
Choice(options, pick) == options[((pick - 1) % Len(options)) + 1]

\* The arguments of one call and what random drew during it. Each field of `draw`
\* is the outcome of one comparison random.random() < p of the code; `pick` is the
\* index random.choice drew.
DynCall(text, role, last_speaker, turn_count, history_len, draw, pick) ==
    [text |-> text, role |-> role, last_speaker |-> last_speaker,
     turn_count |-> turn_count, history_len |-> history_len, draw |-> draw, pick |-> pick]
DynDraws ==
    [build30 : BOOLEAN, ack20 : BOOLEAN, name70 : BOOLEAN, surprise25 : BOOLEAN,
     interrupt : BOOLEAN, half : BOOLEAN, agree35 : BOOLEAN, ratio : BOOLEAN]

\* should_use_name
should_use_name(a) ==
    \/ HasAny(a.text, ImportantWords)
    \/ HasAny(a.text, ContrastWords)
    \/ (a.turn_count > 2 /\ a.draw.build30)
    \/ HasAny(a.text, SurprisingWords)
    \/ (a.history_len > 2 /\ Contains(LowerText(a.text), <<"a", "l", "t", "e", "r", "n", "a", "t", "i", "v", "e">>))
    \/ (a.draw.ack20 /\ HasAny(a.text, AgreeWords))

\* The text so far, the flag added_element, and the embellishments applied so far.
DynState(text, added, applied) == [text |-> text, added_element |-> added, applied |-> applied]

\* if other_agent and should_use_name and random.random() < 0.7 and not added_element:
NameStep(s, a) ==
    IF other_agent(a.role) # <<>> /\ should_use_name(a) /\ a.draw.name70
          /\ ~s.added_element
      THEN DynState(Choice(address_formats(other_agent(a.role)), a.pick) \o LowerText(s.text),
                    TRUE, Append(s.applied, "name"))
      ELSE s

\* a variant that forgets to set added_element
MutSurpriseStep(s, a) ==
    IF ~s.added_element /\ a.draw.surprise25 /\ HasAny(s.text, surprise_words)
      THEN DynState(Choice(emphatics, a.pick) \o s.text, FALSE, Append(s.applied, "surprise"))
      ELSE s
\* if not added_element and random.random() < 0.25 and any(... surprise_words):
SurpriseStep(s, a) ==
    IF ~s.added_element /\ a.draw.surprise25 /\ HasAny(s.text, surprise_words)
      THEN DynState(Choice(emphatics, a.pick) \o s.text, TRUE, Append(s.applied, "surprise"))
      ELSE s

\* if not added_element and random.random() < INTERRUPTION_CHANCE and role != "NEXUS"
\*    and last_speaker and turn_count > 1:
InterruptStep(s, a) ==
    IF ~s.added_element /\ a.draw.interrupt /\ a.role # "NEXUS" /\ a.last_speaker # ""
          /\ a.turn_count > 1
      THEN DynState(IF a.draw.half
                      THEN Choice(acknowledgments, a.pick) \o LowerText(s.text)
                      ELSE Choice(interruptions, a.pick) \o s.text,
                    TRUE, Append(s.applied, "interruption"))
      ELSE s

\* if not added_element and random.random() < 0.35 and role != "NEXUS" and turn_count > 1:
AgreeStep(s, a) ==
    IF ~s.added_element /\ a.draw.agree35 /\ a.role # "NEXUS" /\ a.turn_count > 1
      THEN DynState(Choice(IF a.draw.ratio THEN agreements ELSE disagreements, a.pick)
                        \o LowerText(s.text),
                    s.added_element, Append(s.applied, "agreement"))
      ELSE s

_add_conversation_dynamics(a) ==
    AgreeStep(InterruptStep(SurpriseStep(NameStep(DynState(a.text, FALSE, <<>>), a), a), a), a)

\* Utterances: without any keyword; with an importance, a contrast and an agreement
\* word; with a word of both surprise lists; with the word only surprise_words holds.
DynTexts ==
    { <<"C", "o", "s", "t", "s", " ", "f", "e", "l", "l">>,
      <<"C", "r", "i", "t", "i", "c", "a", "l", ",", " ", "b", "u", "t", " ", "r", "i", "g", "h", "t">>,
      <<"A", " ", "S", "u", "r", "p", "r", "i", "s", "i", "n", "g", " ", "d", "i", "p">>,
      <<"T", "h", "i", "s", " ", "i", "s", " ", "c", "o", "n", "c", "e", "r", "n", "i", "n", "g">> }

\* run_podcast passes the loop index i of `for i in range(turns)` as turn_count:
\* the k-th round-robin pair runs with i = k - 1.
LoopIndex(pair) == pair - 1
\* last_speaker when run_podcast calls for `role` in the pair: "" before the first
\* Reco turn, then the previous speaker.
LastSpeaker(role, pair) ==
    IF role = "STAT" THEN "Reco" ELSE IF role = "RECO" /\ pair = 1 THEN "" ELSE "Stat"
\* len(conversation_history) at that call: the topic intro and the turns before it
HistoryLen(role, pair) == IF role = "STAT" THEN 2 * pair ELSE 2 * pair - 1

InitDyn ==
    /\ fn_pc = "ready"
    /\ \E text \in DynTexts, role \in {"RECO", "STAT", "NEXUS"}, pair \in 1..MaxPair,
          draw \in DynDraws, pick \in 1..4 :
          fn_arg = [fn |-> "dynamics", pair |-> pair,
                    call |-> DynCall(text, role, LastSpeaker(role, pair), LoopIndex(pair),
                                     HistoryLen(role, pair), draw, pick)]
    /\ fn_ret = NoValue
    /\ InitSessionIdle /\ InitLLMIdle /\ InitSoftIdle /\ InitOpenIdle

\* text = _add_conversation_dynamics(text, role, last_speaker, context, i, history)
DynApply ==
    /\ fn_pc = "ready"
    /\ fn_arg.fn = "dynamics"
    /\ fn_ret' = _add_conversation_dynamics(fn_arg.call)
    /\ fn_pc' = "done"
    /\ UNCHANGED <<fn_arg, sessVars, llmVars, sfVars, openVars>>

NextDyn == DynApply

SpecDyn == InitDyn /\ [][NextDyn]_vars

\* ------------------------------------------------------------ claims
\* What each embellishment asks of the call, apart from nothing having been added yet.
NameWanted(a) == other_agent(a.role) # <<>> /\ should_use_name(a) /\ a.draw.name70
SurpriseWanted(a) == a.draw.surprise25 /\ HasAny(a.text, surprise_words)
Range(seq) == {seq[k] : k \in 1..Len(seq)}
DynPrefixes(kind, role) ==
    CASE kind = "name"         -> Range(address_formats(other_agent(role)))
      [] kind = "surprise"     -> Range(emphatics)
      [] kind = "interruption" -> Range(acknowledgments) \cup Range(interruptions)
      [] kind = "agreement"    -> Range(agreements) \cup Range(disagreements)
DynDone == fn_pc = "done" /\ fn_arg.fn = "dynamics"

\* C13: _add_conversation_dynamics applies at most one of its four embellishments, the
\* first in the order name address, surprise emphasis, interruption/acknowledgment,
\* agreement/disagreement whose conditions hold; the result is the utterance (or its
\* lower-cased form) behind the one prefix, or the utterance itself.
C13_AtMostOneEmbellishment ==
    DynDone =>
        LET a == fn_arg.call
            r == fn_ret
            interruptWanted == /\ a.draw.interrupt /\ a.role # "NEXUS"
                               /\ a.last_speaker # "" /\ a.turn_count > 1
            agreeWanted == a.draw.agree35 /\ a.role # "NEXUS" /\ a.turn_count > 1
        IN  /\ Len(r.applied) <= 1
            /\ r.applied = IF NameWanted(a) THEN <<"name">>
                           ELSE IF SurpriseWanted(a) THEN <<"surprise">>
                           ELSE IF interruptWanted THEN <<"interruption">>
                           ELSE IF agreeWanted THEN <<"agreement">>
                           ELSE <<>>
            /\ r.applied = <<>> => r.text = a.text
            /\ r.applied # <<>> =>
                  \E p \in DynPrefixes(r.applied[1], a.role) :
                      r.text = p \o a.text \/ r.text = p \o LowerText(a.text)
\* every later embellishment was drawn too, and only the surprise emphasis is applied
C13_Witness_OnlySurprise ==
    /\ DynDone
    /\ fn_arg.call.role = "STAT"
    /\ fn_arg.call.turn_count = 2
    /\ fn_arg.call.draw.surprise25 /\ fn_arg.call.draw.interrupt /\ fn_arg.call.draw.agree35
    /\ ~fn_arg.call.draw.name70
    /\ fn_ret.text = <<"R", "e", "m", "a", "r", "k", "a", "b", "l", "y", ",", " ", "T", "h", "i", "s", " ", "i", "s", " ", "c", "o", "n", "c", "e", "r", "n", "i", "n", "g">>

\* C14: the interruption/acknowledgment prefix and the agreement/disagreement prefix
\* are never applied in the first pair or to a NEXUS utterance, and from the second
\* pair onward each is applied to a Reco or Stat utterance when its draw selects it
\* and nothing of higher priority was applied.
C14_FromSecondPair ==
    DynDone =>
        LET a == fn_arg.call
            r == fn_ret
            free == ~NameWanted(a) /\ ~SurpriseWanted(a)
            eligible == fn_arg.pair >= 2 /\ a.role # "NEXUS"
        IN  /\ r.applied \in {<<"interruption">>, <<"agreement">>} => eligible
            /\ (eligible /\ free /\ a.draw.interrupt /\ a.last_speaker # "") =>
                  r.applied = <<"interruption">>
            /\ (eligible /\ free /\ ~a.draw.interrupt /\ a.draw.agree35) =>
                  r.applied = <<"agreement">>

\* ============================================================ _clean_repetition
MaxRepWords == 3

\* Length of the run of characters of `class` that starts at t[k] (0 if none).
RECURSIVE RunLen(_, _, _)
RunLen(t, k, class) ==
    IF k >= 1 /\ k <= Len(t) /\ t[k] \in class THEN 1 + RunLen(t, k + 1, class) ELSE 0
WordChars ==
    {UpperChars[n] : n \in 1..Len(UpperChars)} \cup {LowerChars[n] : n \in 1..Len(LowerChars)}
        \cup Digits \cup {"_"}
\* \s+ and \w+ at position k, as long as they can be
SpaceRun(t, k) == RunLen(t, k, Whitespace)
WordRun(t, k) == RunLen(t, k, WordChars)
CharAt(t, k) == IF k >= 1 /\ k <= Len(t) THEN t[k] ELSE ""

\* What one match of a pattern at position k consumes and what replaces it;
\* len = 0 when the pattern does not match at k.
NoMatch == [len |-> 0, repl |-> <<>>]
Match(len, repl) == [len |-> len, repl |-> repl]

\* r'\b(Reco|Stat),\s+\1,?\s+'  ->  r'\1, '
AgentNames == {<<"R", "e", "c", "o">>, <<"S", "t", "a", "t">>}
NameRepeatAt(t, k) ==
    IF WordBoundary(t, k) /\ \E n \in AgentNames : OccursAt(t, n \o <<",">>, k)
      THEN LET n == CHOOSE x \in AgentNames : OccursAt(t, x \o <<",">>, k)
               s1 == SpaceRun(t, k + Len(n) + 1)
               second == k + Len(n) + 1 + s1
               after == second + Len(n)
               comma == IF CharAt(t, after) = "," /\ SpaceRun(t, after + 1) > 0 THEN 1 ELSE 0
               s2 == SpaceRun(t, after + comma)
           IN  IF s1 > 0 /\ OccursAt(t, n, second) /\ s2 > 0
                 THEN Match(2 * Len(n) + 1 + s1 + comma + s2, n \o <<",", " ">>)
                 ELSE NoMatch
      ELSE NoMatch

\* r'\b(\w+)\s+\1\b'  ->  r'\1'
WordRepeatAt(t, k) ==
    LET w == WordRun(t, k)
        s == SpaceRun(t, k + w)
        word == SubSeq(t, k, k + w - 1)
    IN  IF WordBoundary(t, k) /\ w > 0 /\ s > 0 /\ OccursAt(t, word, k + w + s)
              /\ WordBoundary(t, k + 2 * w + s)
          THEN Match(2 * w + s, word)
          ELSE NoMatch

\* r'\b(Given that|If we|The safer read|The safer interpretation),\s+\1'  ->  r'\1'
OpenerPhrases ==
    {<<"G", "i", "v", "e", "n", " ", "t", "h", "a", "t">>, <<"I", "f", " ", "w", "e">>, <<"T", "h", "e", " ", "s", "a", "f", "e", "r", " ", "r", "e", "a", "d">>, <<"T", "h", "e", " ", "s", "a", "f", "e", "r", " ", "i", "n", "t", "e", "r", "p", "r", "e", "t", "a", "t", "i", "o", "n">>}
PhraseRepeatAt(t, k) ==
    IF WordBoundary(t, k) /\ \E p \in OpenerPhrases : OccursAt(t, p \o <<",">>, k)
      THEN LET p == CHOOSE x \in OpenerPhrases : OccursAt(t, x \o <<",">>, k)
               s == SpaceRun(t, k + Len(p) + 1)
           IN  IF s > 0 /\ OccursAt(t, p, k + Len(p) + 1 + s)
                 THEN Match(2 * Len(p) + 1 + s, p)
                 ELSE NoMatch
      ELSE NoMatch

\* The match of one of the three patterns at position k.
MatchAt(pattern, t, k) ==
    CASE pattern = "name"   -> NameRepeatAt(t, k)
      [] pattern = "word"   -> WordRepeatAt(t, k)
      [] pattern = "phrase" -> PhraseRepeatAt(t, k)

\* re.sub(pattern, repl, t): leftmost matches, none overlapping, the scan resuming
\* behind each match.
RECURSIVE ReSubFrom(_, _, _)
ReSubFrom(pattern, t, k) ==
    IF k > Len(t) THEN <<>>
    ELSE LET m == MatchAt(pattern, t, k)
         IN  IF m.len > 0
               THEN m.repl \o ReSubFrom(pattern, t, k + m.len)
               ELSE <<t[k]>> \o ReSubFrom(pattern, t, k + 1)
ReSub(pattern, t) == ReSubFrom(pattern, t, 1)

_clean_repetition(text) == ReSub("phrase", ReSub("word", ReSub("name", text)))

\* Words the inputs are made of: plain words, one that starts like another, the agent
\* names with their comma and an opener phrase with its comma.
RepVocabulary ==
    { <<"a">>, <<"i", "s">>, <<"i", "s", "l", "a", "n", "d">>, <<"R", "e", "c", "o", ",">>, <<"S", "t", "a", "t", ",">>, <<"G", "i", "v", "e", "n", " ", "t", "h", "a", "t", ",">> }
RECURSIVE RepWordLists(_)
RepWordLists(n) ==
    IF n = 0 THEN {<<>>}
    ELSE LET shorter == RepWordLists(n - 1)
         IN  shorter \cup {Append(ws, w) : ws \in {x \in shorter : Len(x) = n - 1},
                                            w \in RepVocabulary}
RepInputs == {Join(ws) : ws \in RepWordLists(MaxRepWords)}

InitRep ==
    /\ fn_pc = "ready"
    /\ \E t \in RepInputs : fn_arg = [fn |-> "clean", text |-> t]
    /\ fn_ret = NoValue
    /\ InitSessionIdle /\ InitLLMIdle /\ InitSoftIdle /\ InitOpenIdle

\* r = _clean_repetition(text)
CleanApply ==
    /\ fn_pc = "ready"
    /\ fn_arg.fn = "clean"
    /\ fn_ret' = [results |-> <<_clean_repetition(fn_arg.text)>>]
    /\ fn_pc' = "done"
    /\ UNCHANGED <<fn_arg, sessVars, llmVars, sfVars, openVars>>

\* _clean_repetition(r): the function applied to its own result
CleanAgain ==
    /\ fn_pc = "done"
    /\ fn_arg.fn = "clean"
    /\ fn_ret' = [results |-> Append(fn_ret.results, _clean_repetition(fn_ret.results[1]))]
    /\ fn_pc' = "again"
    /\ UNCHANGED <<fn_arg, sessVars, llmVars, sfVars, openVars>>

NextRep == CleanApply \/ CleanAgain

SpecRep == InitRep /\ [][NextRep]_vars

\* ------------------------------------------------------------ claims
\* C15: repetition cleanup is idempotent: cleaning a cleaned text changes nothing.
C15_CleanIdempotent ==
    (fn_pc = "again" /\ fn_arg.fn = "clean") => fn_ret.results[2] = fn_ret.results[1]

\* A word stands twice in a row in t, separated by whitespace only.
HasDoubledWord(t) ==
    \E k \in 1..Len(t) :
        LET w == WordRun(t, k)
            s == SpaceRun(t, k + w)
        IN  /\ WordBoundary(t, k) /\ w > 0 /\ s > 0
            /\ OccursAt(t, SubSeq(t, k, k + w - 1), k + w + s)
            /\ WordBoundary(t, k + 2 * w + s)

\* C16: a cleaned text holds no immediately repeated word and no doubled agent name
\* with its comma ("Reco, Reco," / "Stat, Stat,").
C16_NoRepetitionLeft ==
    (fn_pc \in {"done", "again"} /\ fn_arg.fn = "clean") =>
        /\ ~HasDoubledWord(fn_ret.results[1])
        /\ ~Contains(fn_ret.results[1], <<"R", "e", "c", "o", ",", " ", "R", "e", "c", "o", ",">>)
        /\ ~Contains(fn_ret.results[1], <<"S", "t", "a", "t", ",", " ", "S", "t", "a", "t", ",">>)

\* ============================================================ sentence completion
\* a variant that only strips
MutCompleteResponse(text) == Strip(text)
\* ensure_complete_response of the agent tool modules and of the engine:
\* strip, then append "." to a non-empty text that ends in no terminator.
ensure_complete_response(text) ==
    LET t == Strip(text)
    IN  IF t # <<>> /\ t[Len(t)] \notin Terminators THEN Append(t, ".") ELSE t

\* The two completion functions by name.
Completers == {"ensure_complete_response", "ensure_complete_sentence"}
Complete(which, text) ==
    IF which = "ensure_complete_response" THEN ensure_complete_response(text)
    ELSE ensure_complete_sentence(text)

MaxTextLen == 3
\* a letter, whitespace, two terminators and a formatting marker
CompleteAlphabet == {"a", " ", ".", "?", "*"}
CompleteInputs == TextsUpTo(CompleteAlphabet, MaxTextLen)

InitComplete ==
    /\ fn_pc = "ready"
    /\ \E which \in Completers, t \in CompleteInputs :
           fn_arg = [fn |-> "complete", which |-> which, text |-> t]
    /\ fn_ret = NoValue
    /\ InitSessionIdle /\ InitLLMIdle /\ InitSoftIdle /\ InitOpenIdle

\* r = ensure_complete_response(text)  /  r = ensure_complete_sentence(text)
CompleteApply ==
    /\ fn_pc = "ready"
    /\ fn_arg.fn = "complete"
    /\ fn_ret' = [results |-> <<Complete(fn_arg.which, fn_arg.text)>>]
    /\ fn_pc' = "done"
    /\ UNCHANGED <<fn_arg, sessVars, llmVars, sfVars, openVars>>

\* the function applied to its own result
CompleteAgain ==
    /\ fn_pc = "done"
    /\ fn_arg.fn = "complete"
    /\ fn_ret' = [results |-> Append(fn_ret.results, Complete(fn_arg.which, fn_ret.results[1]))]
    /\ fn_pc' = "again"
    /\ UNCHANGED <<fn_arg, sessVars, llmVars, sfVars, openVars>>

NextComplete == CompleteApply \/ CompleteAgain

SpecComplete == InitComplete /\ [][NextComplete]_vars

\* ------------------------------------------------------------ claims
EndsInTerminator(t) == t # <<>> /\ t[Len(t)] \in Terminators

\* C17: for every text that does not end in a terminator (the empty and the
\* whitespace-only text included) the completed text ends in ".", "!" or "?", and
\* completing the completed text changes nothing.
C17_CompleteTerminated ==
    (fn_arg.fn = "complete" /\ ~EndsInTerminator(fn_arg.text)) =>
        /\ fn_pc \in {"done", "again"} => EndsInTerminator(fn_ret.results[1])
        /\ fn_pc = "again" => fn_ret.results[2] = fn_ret.results[1]

\* ============================================================ text_to_ssml
Personas == {"NEXUS", "RECO", "STAT"}
VOICE_PLAN ==
    [NEXUS |-> [style |-> "friendly", base_pitch |-> <<"+", "1", "%">>, base_rate |-> <<"-", "2", "%">>],
     RECO  |-> [style |-> "cheerful", base_pitch |-> <<"+", "2", "%">>, base_rate |-> <<"-", "3", "%">>],
     STAT  |-> [style |-> "serious",  base_pitch |-> <<"-", "1", "%">>, base_rate |-> <<"-", "4", "%">>]]
\* VOICE_NEXUS / VOICE_RECO / VOICE_STAT (the defaults of the environment lookups)
Voice(role) ==
    IF role = "NEXUS" THEN "en-US-SaraNeural"
    ELSE IF role = "RECO" THEN "en-US-JennyNeural" ELSE "en-US-BrianNeural"

\* The two copies of the helpers: models/audio and the engine module.
SsmlImpls == {"Models_audio", "podcast_engine"}

DigitChars == <<"0", "1", "2", "3", "4", "5", "6", "7", "8", "9">>
DigitValue(c) == (CHOOSE k \in 1..Len(DigitChars) : DigitChars[k] = c) - 1
\* str(n) for an integer n
RECURSIVE NatText(_)
NatText(n) ==
    IF n < 10 THEN <<DigitChars[n + 1]>>
    ELSE NatText(n \div 10) \o <<DigitChars[(n % 10) + 1]>>
IntText(n) == IF n < 0 THEN <<"-">> \o NatText(0 - n) ELSE NatText(n)
\* int(s): an optional sign and at least one digit; anything else raises ValueError
Unsigned(s) == IF s # <<>> /\ Head(s) \in {"+", "-"} THEN Tail(s) ELSE s
IsIntText(s) == Unsigned(s) # <<>> /\ \A k \in 1..Len(Unsigned(s)) : Unsigned(s)[k] \in Digits
RECURSIVE NatValue(_)
NatValue(s) ==
    IF s = <<>> THEN 0
    ELSE 10 * NatValue(SubSeq(s, 1, Len(s) - 1)) + DigitValue(s[Len(s)])
IntValue(s) ==
    IF s # <<>> /\ Head(s) = "-" THEN 0 - NatValue(Unsigned(s)) ELSE NatValue(Unsigned(s))

\* random.randint(a, b): every integer from a to b
randint(a, b) == a..b
PitchSpread == 3
RateSpread == 2

\* a variant that doubles the drawn offset
Mut_jitter(pct, spread, j) ==
    LET s    == Strip(pct)
        sgn  == IF s # <<>> /\ Head(s) \in {"+", "-"} THEN 1 ELSE 0
        d    == RunLen(s, sgn + 1, Digits)
        m    == d > 0 /\ sgn + d + 1 <= Len(s) /\ s[sgn + d + 1] = "%"
        base == IF m THEN IntValue(SubSeq(s, 1, sgn + d)) ELSE 0
    IN  IntText(base + 2 * j) \o <<"%">>

\* _jitter(pct, spread) with j the value drawn by random.randint(-spread, spread):
\*   m = re.match(r'([+-]?\d+)%', pct.strip()); base = int(m.group(1)) if m else 0
\*   return f"{base + j}%"
_jitter(pct, spread, j) ==
    LET s    == Strip(pct)
        sgn  == IF s # <<>> /\ Head(s) \in {"+", "-"} THEN 1 ELSE 0
        d    == RunLen(s, sgn + 1, Digits)
        m    == d > 0 /\ sgn + d + 1 <= Len(s) /\ s[sgn + d + 1] = "%"
        base == IF m THEN IntValue(SubSeq(s, 1, sgn + d)) ELSE 0
    IN  IntText(base + j) \o <<"%">>

\* text.strip().endswith("?")
EndsWithQuestion(text) == Strip(text) # <<>> /\ Strip(text)[Len(Strip(text))] = "?"
\* re.search(r'\bhowever\b|\bbut\b', text, re.I)
HasHoweverOrBut(text) ==
    \E w \in {<<"h", "o", "w", "e", "v", "e", "r">>, <<"b", "u", "t">>} : \E k \in 1..Len(text) :
        /\ OccursAt(LowerText(text), w, k)
        /\ WordBoundary(text, k)
        /\ WordBoundary(text, k + Len(w))
\* the keyword list of the last branch; the engine's copy lacks 'remarkable'
SurpriseKeywords(mod) ==
    IF mod = "Models_audio"
      THEN {<<"s", "u", "r", "p", "r", "i", "s", "i", "n", "g">>, <<"s", "h", "o", "c", "k", "i", "n", "g">>, <<"u", "n", "e", "x", "p", "e", "c", "t", "e", "d">>, <<"d", "r", "a", "m", "a", "t", "i", "c">>, <<"r", "e", "m", "a", "r", "k", "a", "b", "l", "e">>}
      ELSE {<<"s", "u", "r", "p", "r", "i", "s", "i", "n", "g">>, <<"s", "h", "o", "c", "k", "i", "n", "g">>, <<"u", "n", "e", "x", "p", "e", "c", "t", "e", "d">>, <<"d", "r", "a", "m", "a", "t", "i", "c">>}
\* any(word in text.lower() for word in [...])
HasSurprise(mod, text) == HasAny(text, SurpriseKeywords(mod))

\* a variant that tests for however/but before the question mark
MutPitchAdjustment(mod, text) ==
    IF HasHoweverOrBut(text) THEN 0 - 2
    ELSE IF EndsWithQuestion(text) THEN 4
    ELSE IF HasSurprise(mod, text) THEN 3
    ELSE 0

\* the if / elif / elif chain of _inflect: the offset of the first branch that applies
PitchAdjustment(mod, text) ==
    IF EndsWithQuestion(text) THEN 4
    ELSE IF HasHoweverOrBut(text) THEN 0 - 2
    ELSE IF HasSurprise(mod, text) THEN 3
    ELSE 0

\* _inflect(text, role) with the two drawn offsets jp and jr
_inflect(mod, text, role, jp, jr) ==
    LET pitch == _jitter(VOICE_PLAN[role].base_pitch, PitchSpread, jp)
        rate  == _jitter(VOICE_PLAN[role].base_rate, RateSpread, jr)
        num   == Replace(pitch, <<"%">>, <<>>)
        adj   == PitchAdjustment(mod, text)
        \* p = int(pitch.replace('%', '')); on ValueError models/audio takes p = 0
        \* and the engine takes the literal "+4%" / "-2%" / "+3%"
        failed == IF mod = "Models_audio" THEN IntText(adj) \o <<"%">>
                  ELSE (IF adj < 0 THEN <<"-">> ELSE <<"+">>)
                           \o NatText(IF adj < 0 THEN 0 - adj ELSE adj) \o <<"%">>
        branch == EndsWithQuestion(text) \/ HasHoweverOrBut(text) \/ HasSurprise(mod, text)
    IN  [pitch |-> IF ~branch THEN pitch
                   ELSE IF IsIntText(num) THEN IntText(IntValue(num) + adj) \o <<"%">>
                   ELSE failed,
         rate  |-> rate]

\* _ssml: one voice element holding one prosody element with its attributes in order.
\* The element body (the text with its emphasis and pause annotations) takes no part
\* in the prosody values and is not represented.
_ssml(voice, style, rate, pitch) ==
    [voice |-> voice, style |-> style, prosody |-> << <<"rate", rate>>, <<"pitch", pitch>> >>]

text_to_ssml(mod, text, role, jp, jr) ==
    LET pr == _inflect(mod, text, role, jp, jr)
    IN  _ssml(Voice(role), VOICE_PLAN[role].style, pr.rate, pr.pitch)

\* Texts on each side of every test of _inflect, alone and combined.
SsmlTexts ==
    { <<>>,
      <<"S", "a", "l", "e", "s", " ", "r", "o", "s", "e", ".">>,
      <<"I", "s", " ", "i", "t", " ", "u", "p", "?">>,
      <<"I", "s", " ", "i", "t", " ", "u", "p", "?", " ">>,
      <<"U", "p", "?", " ", "Y", "e", "s", ".">>,
      <<"B", "u", "t", " ", "i", "s", " ", "i", "t", " ", "u", "p", "?">>,
      <<"I", "s", " ", "t", "h", "a", "t", " ", "n", "o", "t", " ", "s", "u", "r", "p", "r", "i", "s", "i", "n", "g", "?">>,
      <<"A", " ", "d", "r", "a", "m", "a", "t", "i", "c", " ", "d", "i", "p", ",", " ", "b", "u", "t", " ", "w", "h", "y", "?">>,
      <<"H", "o", "w", "e", "v", "e", "r", ",", " ", "i", "t", " ", "f", "e", "l", "l", ".">>,
      <<"I", "t", " ", "f", "e", "l", "l", " ", "B", "U", "T", " ", "r", "o", "s", "e", ".">>,
      <<"A", " ", "s", "u", "r", "p", "r", "i", "s", "i", "n", "g", " ", "b", "u", "t", " ", "s", "m", "a", "l", "l", " ", "d", "i", "p", ".">>,
      <<"P", "r", "e", "s", "s", " ", "t", "h", "e", " ", "b", "u", "t", "t", "o", "n", ".">>,
      <<"A", " ", "s", "h", "o", "c", "k", "i", "n", "g", " ", "d", "i", "p", ".">>,
      <<"A", "n", " ", "u", "n", "e", "x", "p", "e", "c", "t", "e", "d", " ", "d", "i", "p", ".">>,
      <<"A", " ", "r", "e", "m", "a", "r", "k", "a", "b", "l", "e", " ", "d", "i", "p", ".">> }

InitSsml ==
    /\ fn_pc = "ready"
    /\ \E mod \in SsmlImpls, role \in Personas, t \in SsmlTexts :
           fn_arg = [fn |-> "ssml", mod |-> mod, role |-> role, text |-> t]
    /\ fn_ret = NoValue
    /\ InitSessionIdle /\ InitLLMIdle /\ InitSoftIdle /\ InitOpenIdle

\* ssml = text_to_ssml(text, role)
TextToSsml ==
    /\ fn_pc = "ready"
    /\ fn_arg.fn = "ssml"
    /\ \E jp \in randint(0 - PitchSpread, PitchSpread), jr \in randint(0 - RateSpread, RateSpread) :
           fn_ret' = [ssml  |-> text_to_ssml(fn_arg.mod, fn_arg.text, fn_arg.role, jp, jr),
                      draws |-> [pitch |-> jp, rate |-> jr]]
    /\ fn_pc' = "done"
    /\ UNCHANGED <<fn_arg, sessVars, llmVars, sfVars, openVars>>

NextSsml == TextToSsml

SpecSsml == InitSsml /\ [][NextSsml]_vars

\* ------------------------------------------------------------ claims
SsmlDone == fn_pc = "done" /\ fn_arg.fn = "ssml"
\* the values of the prosody attributes called name
Attr(name) == {fn_ret.ssml.prosody[k][2] : k \in {j \in 1..Len(fn_ret.ssml.prosody) : fn_ret.ssml.prosody[j][1] = name}}
AttrCount(name) == Cardinality({j \in 1..Len(fn_ret.ssml.prosody) : fn_ret.ssml.prosody[j][1] = name})
\* an integer followed by a percent sign, and its value
IsIntPct(s) == s # <<>> /\ s[Len(s)] = "%" /\ IsIntText(SubSeq(s, 1, Len(s) - 1))
PctValue(s) == IntValue(SubSeq(s, 1, Len(s) - 1))
PitchOut == CHOOSE v \in Attr("pitch") : TRUE
RateOut == CHOOSE v \in Attr("rate") : TRUE

\* C18: text_to_ssml produces exactly one pitch and one rate, both integer
\* percentages, the rate within 2 of the persona's base rate and the pitch between
\* the persona's base pitch minus 5 and plus 7.
C18_ProsodyRange ==
    SsmlDone =>
        /\ AttrCount("pitch") = 1 /\ AttrCount("rate") = 1
        /\ IsIntPct(PitchOut) /\ IsIntPct(RateOut)
        /\ PctValue(RateOut) >= PctValue(VOICE_PLAN[fn_arg.role].base_rate) - 2
        /\ PctValue(RateOut) <= PctValue(VOICE_PLAN[fn_arg.role].base_rate) + 2
        /\ PctValue(PitchOut) >= PctValue(VOICE_PLAN[fn_arg.role].base_pitch) - 5
        /\ PctValue(PitchOut) <= PctValue(VOICE_PLAN[fn_arg.role].base_pitch) + 7

\* The low end of the pitch range and of the rate range is produced.
C18_Witness_Extremes ==
    /\ SsmlDone
    /\ fn_arg.role = "STAT"
    /\ PitchOut = <<"-", "6", "%">>
    /\ RateOut = <<"-", "6", "%">>

\* C19: the pitch is the jittered pitch plus exactly one offset chosen by
\* precedence: +4 for a text ending in "?", whatever else it holds; otherwise -2 for
\* a text holding however or but, whatever else it holds; otherwise +3 for a text
\* holding a surprise keyword; otherwise nothing. The rate is the jittered rate.
C19_OneAdjustmentByPrecedence ==
    SsmlDone =>
        LET jittered == PctValue(VOICE_PLAN[fn_arg.role].base_pitch) + fn_ret.draws.pitch
            t == fn_arg.text
        IN  /\ EndsWithQuestion(t) => PctValue(PitchOut) = jittered + 4
            /\ (~EndsWithQuestion(t) /\ HasHoweverOrBut(t)) => PctValue(PitchOut) = jittered - 2
            /\ (~EndsWithQuestion(t) /\ ~HasHoweverOrBut(t) /\ HasSurprise(fn_arg.mod, t))
                   => PctValue(PitchOut) = jittered + 3
            /\ (~EndsWithQuestion(t) /\ ~HasHoweverOrBut(t) /\ ~HasSurprise(fn_arg.mod, t))
                   => PctValue(PitchOut) = jittered
            /\ PctValue(RateOut) = PctValue(VOICE_PLAN[fn_arg.role].base_rate) + fn_ret.draws.rate

\* A question holding but and a surprise keyword got +4 and nothing else.
C19_Witness_QuestionWins ==
    /\ SsmlDone
    /\ fn_arg.text = <<"A", " ", "d", "r", "a", "m", "a", "t", "i", "c", " ", "d", "i", "p", ",", " ", "b", "u", "t", " ", "w", "h", "y", "?">>
    /\ fn_arg.role = "RECO"
    /\ fn_ret.draws.pitch = 3
    /\ PitchOut = <<"9", "%">>

\* ============================================================ synth
MaxSsmlLen == 3
\* Markup given to synth: every short text over the two tag delimiters, a letter and
\* a slash, and one document of the shape _ssml writes.
SsmlInputs ==
    TextsUpTo({"<", ">", "a", "/"}, MaxSsmlLen)
        \cup { <<"<", "s", "p", "e", "a", "k", ">", "<", "v", "o", "i", "c", "e", " ", "n", "a", "m", "e", "=", "\"", "v", "\"", ">", "<", "p", "r", "o", "s", "o", "d", "y", " ", "r", "a", "t", "e", "=", "\"", "-", "3", "%", "\"", " ", "p", "i", "t", "c", "h", "=", "\"", "2", "%", "\"", ">", "H", "i", "<", "b", "r", "e", "a", "k", " ", "t", "i", "m", "e", "=", "\"", "3", "2", "0", "m", "s", "\"", "/", ">", "<", "/", "p", "r", "o", "s", "o", "d", "y", ">", "<", "/", "v", "o", "i", "c", "e", ">", "<", "/", "s", "p", "e", "a", "k", ">">> }

\* re.sub(r'<[^>]+>', ' ', ssml): a tag is "<", one or more characters other than
\* ">", and ">"; leftmost, non-overlapping matches.
TagLenAt(t, k) ==
    LET n == RunLen(t, k + 1, {t[j] : j \in 1..Len(t)} \ {">"})
    IN  IF k <= Len(t) /\ t[k] = "<" /\ n >= 1 /\ k + n + 1 <= Len(t) /\ t[k + n + 1] = ">"
          THEN n + 2 ELSE 0
RECURSIVE StripTagsFrom(_, _)
StripTagsFrom(t, k) ==
    IF k > Len(t) THEN <<>>
    ELSE IF TagLenAt(t, k) > 0 THEN <<" ">> \o StripTagsFrom(t, k + TagLenAt(t, k))
    ELSE <<t[k]>> \o StripTagsFrom(t, k + 1)

\* a variant that retries with the markup unchanged
MutPlain(ssml) == ssml

\* plain = re.sub(r'<[^>]+>', ' ', ssml)
plain(ssml) == StripTagsFrom(ssml, 1)

\* fd, tmp = tempfile.mkstemp(prefix="seg_", suffix=".wav")
TmpPath == "seg_.wav"
\* A synthesis call: speak_ssml_async(arg) or speak_text_async(arg), and whether its
\* result reason is SynthesizingAudioCompleted.
SynthCall(kind, arg) == [kind |-> kind, arg |-> arg, reason |-> "pending"]
Settle(log, completed) ==
    [log EXCEPT ![Len(log)].reason = IF completed THEN "Completed" ELSE "Canceled"]

InitSynth ==
    /\ fn_pc = "ready"
    /\ \E s \in SsmlInputs : fn_arg = [fn |-> "synth", ssml |-> s]
    /\ fn_ret = [calls |-> <<>>, files |-> {}, TMP |-> <<>>, removes |-> 0, result |-> NoResult]
    /\ InitSessionIdle /\ InitLLMIdle /\ InitSoftIdle /\ InitOpenIdle

\* mkstemp; TMP.append(tmp); spk.speak_ssml_async(ssml)
SynthSpeakSsml ==
    /\ fn_pc = "ready"
    /\ fn_arg.fn = "synth"
    /\ fn_ret' = [fn_ret EXCEPT !.files = {TmpPath},
                                !.TMP = Append(fn_ret.TMP, TmpPath),
                                !.calls = <<SynthCall("ssml", fn_arg.ssml)>>]
    /\ fn_pc' = "speak_ssml"
    /\ UNCHANGED <<fn_arg, sessVars, llmVars, sfVars, openVars>>

\* r = ....get(); completed: return tmp; otherwise spk.speak_text_async(plain)
SynthSsmlResult ==
    /\ fn_pc = "speak_ssml"
    /\ \E completed \in BOOLEAN :
           IF completed
             THEN /\ fn_ret' = [fn_ret EXCEPT !.calls = Settle(fn_ret.calls, TRUE),
                                              !.result = Returned(TmpPath)]
                  /\ fn_pc' = "returned"
             ELSE /\ fn_ret' = [fn_ret EXCEPT !.calls = Append(Settle(fn_ret.calls, FALSE),
                                                              SynthCall("text", plain(fn_arg.ssml)))]
                  /\ fn_pc' = "speak_text"
    /\ UNCHANGED <<fn_arg, sessVars, llmVars, sfVars, openVars>>

\* r = ....get(); completed: return tmp; otherwise os.remove(tmp), whose own failure
\* is swallowed, and raise RuntimeError("TTS failed")
SynthTextResult ==
    /\ fn_pc = "speak_text"
    /\ \E completed \in BOOLEAN, removed \in BOOLEAN :
           IF completed
             THEN /\ fn_ret' = [fn_ret EXCEPT !.calls = Settle(fn_ret.calls, TRUE),
                                              !.result = Returned(TmpPath)]
                  /\ fn_pc' = "returned"
             ELSE /\ fn_ret' = [fn_ret EXCEPT !.calls = Settle(fn_ret.calls, FALSE),
                                              !.removes = fn_ret.removes + 1,
                                              !.files = IF removed THEN {} ELSE fn_ret.files]
                  /\ fn_pc' = "raised"
    /\ UNCHANGED <<fn_arg, sessVars, llmVars, sfVars, openVars>>

NextSynth == SynthSpeakSsml \/ SynthSsmlResult \/ SynthTextResult

SpecSynth == InitSynth /\ [][NextSynth]_vars

\* ------------------------------------------------------------ claims
HasTag(t) == \E k \in 1..Len(t) : TagLenAt(t, k) > 0
SomeCompleted == \E k \in 1..Len(fn_ret.calls) : fn_ret.calls[k].reason = "Completed"
BothFailed ==
    /\ Len(fn_ret.calls) = 2
    /\ \A k \in 1..2 : fn_ret.calls[k].reason = "Canceled"

MaxSegs == 3
\* (r.getframerate(), r.getnchannels(), r.getsampwidth()) of a wav file
Format(rate, channels, width) == [rate |-> rate, channels |-> channels, width |-> width]
\* (rate, 1, 2) with the default rate
RequiredFormat == Format(24000, 1, 2)
SegFormats == {RequiredFormat, Format(16000, 1, 2), Format(24000, 2, 2), Format(24000, 1, 1)}
\* The frames of the n-frame segment called name, and a wav file.
Frames(name, n) == [j \in 1..n |-> [seg |-> name, n |-> j]]
Wav(fmt, frames) == [fmt |-> fmt, frames |-> frames]
\* A segment path and the file behind it.
Segment(name, fmt, n) == [name |-> name, wav |-> Wav(fmt, Frames(name, n))]
\* Every list of at most n segments; the k-th is named k and holds one or two frames.
RECURSIVE SegmentLists(_)
SegmentLists(n) ==
    IF n = 0 THEN {<<>>}
    ELSE LET shorter == SegmentLists(n - 1)
         IN  shorter \cup {Append(l, Segment(n, f, c)) :
                              l \in {x \in shorter : Len(x) = n - 1}, f \in SegFormats, c \in 1..2}

\* The three paths write_master touches: mkstemp's file, out_path and the
\* timestamped alternative base + strftime(...) + ext.
TmpFinal == "final_.wav"
OutPath == "podcast.wav"
AltPath == "podcast_stamp.wav"
MasterPaths == {TmpFinal, OutPath, AltPath}

\* a variant that leaves the file in place
MutOsRemove(fs, path) == fs

\* os.remove(path)
os_remove(fs, path) == [fs EXCEPT ![path] = NoFile]
\* os.replace(src, dst) when it succeeds
os_replace(fs, src, dst) == [fs EXCEPT ![dst] = fs[src], ![src] = NoFile]

\* a variant that puts the new frames in front
MutWriteframes(wav, frames) == [wav EXCEPT !.frames = frames \o wav.frames]

\* w.writeframes(r.readframes(r.getnframes()))
writeframes(wav, frames) == [wav EXCEPT !.frames = wav.frames \o frames]

\* wav_len: frames / rate, kept as the pair (frames, rate)
wav_len(wav) == <<Len(wav.frames), wav.fmt.rate>>

InitMaster ==
    /\ fn_pc = "ready"
    /\ \E segs \in SegmentLists(MaxSegs), before \in {NoFile, File(Wav(RequiredFormat, Frames(0, 1)))} :
           /\ fn_arg = [fn |-> "write_master", segments |-> segs, before |-> before]
           /\ fn_ret = [fs |-> [p \in MasterPaths |-> IF p = OutPath THEN before ELSE NoFile],
                        k |-> 1, result |-> NoResult, error |-> NoValue, audio_file |-> NoValue]
    /\ InitSessionIdle /\ InitLLMIdle /\ InitSoftIdle /\ InitOpenIdle

\* mkstemp; wave.open(tmp, "wb"); setnchannels(1); setsampwidth(2); setframerate(rate)
MasterOpen ==
    /\ fn_pc = "ready"
    /\ fn_arg.fn = "write_master"
    /\ fn_ret' = [fn_ret EXCEPT !.fs[TmpFinal] = File(Wav(RequiredFormat, <<>>))]
    /\ fn_pc' = "writing"
    /\ UNCHANGED <<fn_arg, sessVars, llmVars, sfVars, openVars>>

\* one round of `for seg in segments`: a segment of another format raises out of the
\* with block (the writer is closed), the handler removes tmp and re-raises
MasterSegment ==
    /\ fn_pc = "writing"
    /\ fn_ret.k <= Len(fn_arg.segments)
    /\ LET seg == fn_arg.segments[fn_ret.k]
       IN  IF seg.wav.fmt # RequiredFormat
             THEN /\ fn_ret' = [fn_ret EXCEPT !.fs = os_remove(fn_ret.fs, TmpFinal),
                                              !.error = [kind |-> "RuntimeError", seg |-> seg.name]]
                  /\ fn_pc' = "raised"
             ELSE /\ fn_ret' = [fn_ret EXCEPT
                                  !.fs[TmpFinal] = File(writeframes(fn_ret.fs[TmpFinal].content, seg.wav.frames)),
                                  !.k = fn_ret.k + 1]
                  /\ fn_pc' = "writing"
    /\ UNCHANGED <<fn_arg, sessVars, llmVars, sfVars, openVars>>

\* os.replace(tmp, out_path): done, PermissionError (the destination is locked), or
\* another OSError, which the outer handler answers by removing tmp and re-raising
MasterReplace ==
    /\ fn_pc = "writing"
    /\ fn_ret.k > Len(fn_arg.segments)
    /\ \E answer \in {"ok", "PermissionError", "OSError"} :
           CASE answer = "ok" ->
                  /\ fn_ret' = [fn_ret EXCEPT !.fs = os_replace(fn_ret.fs, TmpFinal, OutPath),
                                              !.result = Returned(OutPath)]
                  /\ fn_pc' = "returned"
             [] answer = "PermissionError" ->
                  /\ fn_ret' = fn_ret
                  /\ fn_pc' = "locked"
             [] answer = "OSError" ->
                  /\ fn_ret' = [fn_ret EXCEPT !.fs = os_remove(fn_ret.fs, TmpFinal),
                                              !.error = [kind |-> "OSError", seg |-> 0]]
                  /\ fn_pc' = "raised"
    /\ UNCHANGED <<fn_arg, sessVars, llmVars, sfVars, openVars>>

\* except PermissionError: os.replace(tmp, alt); return alt
MasterReplaceAlt ==
    /\ fn_pc = "locked"
    /\ fn_ret' = [fn_ret EXCEPT !.fs = os_replace(fn_ret.fs, TmpFinal, AltPath),
                                !.result = Returned(AltPath)]
    /\ fn_pc' = "returned"
    /\ UNCHANGED <<fn_arg, sessVars, llmVars, sfVars, openVars>>

\* The caller: write_master(segments, out_wav) as a statement, then
\* "audio_file": out_wav in the result of generate_podcast
MasterCallerReports ==
    /\ fn_pc = "returned"
    /\ fn_arg.fn = "write_master"
    /\ fn_ret' = [fn_ret EXCEPT !.audio_file = [path |-> OutPath]]
    /\ fn_pc' = "reported"
    /\ UNCHANGED <<fn_arg, sessVars, llmVars, sfVars, openVars>>

NextMaster == MasterOpen \/ MasterSegment \/ MasterReplace \/ MasterReplaceAlt \/ MasterCallerReports

SpecMaster == InitMaster /\ [][NextMaster]_vars

\* ------------------------------------------------------------ claims
MasterCall == fn_arg.fn = "write_master"
Offending == {k \in 1..Len(fn_arg.segments) : fn_arg.segments[k].wav.fmt # RequiredFormat}
FirstOffending == CHOOSE k \in Offending : \A j \in Offending : k <= j
MasterEnded == fn_pc \in {"returned", "reported", "raised"}

RECURSIVE FramesInOrder(_, _)
FramesInOrder(segs, k) ==
    IF k = 0 THEN <<>> ELSE FramesInOrder(segs, k - 1) \o segs[k].wav.frames
RECURSIVE FrameCount(_, _)
FrameCount(segs, k) ==
    IF k = 0 THEN 0 ELSE FrameCount(segs, k - 1) + wav_len(segs[k].wav)[1]
Written == fn_ret.fs[fn_ret.result.value].content

\* C22: for segments of the required format the file write_master wrote holds the
\* segments' frames in list order, nothing added or dropped; its frame count is the
\* sum of theirs, at their common rate, so its duration is the sum of theirs.
C22_FramesInListOrder ==
    (MasterCall /\ fn_pc \in {"returned", "reported"}) =>
        /\ Offending = {}
        /\ Written.frames = FramesInOrder(fn_arg.segments, Len(fn_arg.segments))
        /\ wav_len(Written)[1] = FrameCount(fn_arg.segments, Len(fn_arg.segments))
        /\ \A k \in 1..Len(fn_arg.segments) : wav_len(fn_arg.segments[k].wav)[2] = wav_len(Written)[2]
        /\ Written.fmt = RequiredFormat

\* Three segments of two, one and two frames were merged into the destination.
C22_Witness_ThreeMerged ==
    /\ MasterCall
    /\ fn_pc = "returned"
    /\ fn_ret.result = Returned(OutPath)
    /\ Len(fn_arg.segments) = 3
    /\ Len(fn_arg.segments[1].wav.frames) = 2
    /\ Len(fn_arg.segments[2].wav.frames) = 1
    /\ Len(Written.frames) = 5

\* C23: when the destination is locked at the move, no error is raised, the merged
\* audio is at the alternative path, and that path is what the caller gets and
\* reports as the audio file.
C23_ConflictReportsSubstitute ==
    (MasterCall /\ fn_ret.result = Returned(AltPath)) =>
        /\ fn_ret.error = NoValue
        /\ fn_ret.fs[AltPath] = File(Wav(RequiredFormat, FramesInOrder(fn_arg.segments, Len(fn_arg.segments))))
        /\ fn_pc = "reported" => fn_ret.audio_file = [path |-> AltPath]

\* ============================================================ temporary segment files
\* The session has ended: run_podcast / generate_podcast returned or raised.
SessionEnded == pc \in {"done", "raised"}

\* C24: when a session ends, after the master file was produced or after a turn
\* raised, no temporary segment file that synth created for it is left on disk.
C24_SegmentsDeletedAtSessionEnd == SessionEnded => tmp_files = {}

\* ============================================================ sessions of one process
\* Two sessions of one process, sequential or interleaved at the awaits of their turns.
\* fn_arg.mod is the implementation; fn_ret.memory maps a dictionary to its contents,
\* fn_ret.writer to the session that last stored each role's opener in it, and
\* fn_ret.at to each session's position.
Sessions == {"A", "B"}
IsoImpls == {"graph", "engine"}
\* The dictionary a session hands to vary_opening: graph.py's nodes pass the module
\* global _last_openings (line 382), run_podcast its local last_openings (line 657).
MemoryOf(mod, s) == IF mod = "graph" THEN "_last_openings" ELSE s
Dictionaries == {"_last_openings"} \cup Sessions
EmptyMemory == [r \in Roles |-> ""]
NoWriter == [r \in Roles |-> "none"]

InitIso ==
    /\ InitSessionIdle /\ InitLLMIdle /\ InitSoftIdle /\ InitOpenIdle
    /\ fn_pc = "sessions"
    /\ \E mod \in IsoImpls : fn_arg = [fn |-> "sessions", mod |-> mod]
    /\ fn_ret = [memory |-> [d \in Dictionaries |-> EmptyMemory],
                 writer |-> [d \in Dictionaries |-> NoWriter],
                 at |-> [s \in Sessions |-> "new"]]

\* generate_podcast / run_podcast is entered: run_podcast creates its dictionary
\* (last_openings = {}), generate_podcast creates none.
IsoStart(s) ==
    /\ fn_pc = "sessions"
    /\ fn_ret.at[s] = "new"
    /\ LET d == MemoryOf(fn_arg.mod, s)
       IN  fn_ret' = [fn_ret EXCEPT
                        !.at[s] = "running",
                        !.memory[d] = IF fn_arg.mod = "engine" THEN EmptyMemory ELSE @,
                        !.writer[d] = IF fn_arg.mod = "engine" THEN NoWriter ELSE @]
    /\ UNCHANGED <<fn_pc, fn_arg, sessVars, llmVars, sfVars, openVars>>

\* One polish of a turn of session s: vary_opening(line, role, dictionary of s).
IsoTurn(s, role, first, below40, cand, again) ==
    /\ fn_pc = "sessions"
    /\ fn_ret.at[s] = "running"
    /\ cand \in OPENERS[role]
    /\ LET d == MemoryOf(fn_arg.mod, s)
           last == fn_ret.memory[d][role]
           pool == RedrawPool(role, cand)
           chosen == IF last = cand THEN (IF pool # {} THEN again ELSE cand) ELSE cand
       IN  /\ (last = cand /\ pool # {}) => again \in pool
           /\ (last # cand \/ pool = {}) => again = cand
           /\ InsertsOpener(first, below40)
           /\ fn_ret' = [fn_ret EXCEPT !.memory[d][role] = chosen,
                                       !.writer[d][role] = s]
    /\ UNCHANGED <<fn_pc, fn_arg, sessVars, llmVars, sfVars, openVars>>

\* The session returns.
IsoEnd(s) ==
    /\ fn_pc = "sessions"
    /\ fn_ret.at[s] = "running"
    /\ fn_ret' = [fn_ret EXCEPT !.at[s] = "ended"]
    /\ UNCHANGED <<fn_pc, fn_arg, sessVars, llmVars, sfVars, openVars>>

NextIso ==
    \E s \in Sessions :
        \/ IsoStart(s)
        \/ \E role \in Roles, first \in FirstKinds, below40 \in BOOLEAN :
               \E cand, again \in OPENERS[role] : IsoTurn(s, role, first, below40, cand, again)
        \/ IsoEnd(s)

SpecIso == InitIso /\ [][NextIso]_vars

\* The opener memory a running session would read holds only what that session
\* stored in it.
OwnMemoryOnly(s) ==
    fn_ret.at[s] = "running" =>
        \A r \in Roles : fn_ret.writer[MemoryOf(fn_arg.mod, s)][r] \in {"none", s}

\* C25: a session's opener memory is its own: while a session runs, the memory its
\* polish reads was never written by another session of the process.
C25_SessionsIsolated ==
    fn_pc = "sessions" => \A s \in Sessions : OwnMemoryOnly(s)

\* run_podcast alone keeps its sessions apart
EngineSessionsIsolated ==
    (fn_pc = "sessions" /\ fn_arg.mod = "engine") => \A s \in Sessions : OwnMemoryOnly(s)

\* ============================================================ order of external calls
\* The call started at position k of the log has ended before anything else started.
Awaited(k) ==
    /\ k < Len(events)
    /\ events[k + 1].at = "end"
    /\ events[k + 1].kind = events[k].kind
    /\ events[k + 1].step = events[k].step
\* At the start of the model call at position k (not the session's first call) the
\* turn before it is complete: its synthesis ended with a segment, that segment is
\* appended, and there is a script line for every segment.
PreviousTurnAppended(k) ==
    /\ events[k - 1].kind = "synth"
    /\ events[k - 1].at = "end"
    /\ events[k - 1].ok
    /\ events[k].segs = events[k - 1].segs + 1
    /\ events[k].lines = events[k].segs

MaxAgentTurns == 3
Agents == {"Nexus", "Reco", "Stat"}
Forms == {"endpoint", "test_nexus", "test_reco", "test_stat", "reco_demo", "stat_demo"}
\* turns= of each form: request.turns, 1 in the tests, 3 in the demo runs
FormTurns(form) ==
    CASE form = "endpoint" -> 0..MaxAgentTurns
      [] form \in {"reco_demo", "stat_demo"} -> {3}
      [] OTHER -> {1}
FirstAgent(form) ==
    CASE form \in {"endpoint", "test_nexus"} -> "Nexus"
      [] form \in {"test_reco", "reco_demo"} -> "Reco"
      [] OTHER -> "Stat"

\* One produced turn; n is 0 for a fixed line and the 1-based index of a generated one.
AgentTurn(speaker, kind, n) == [speaker |-> speaker, kind |-> kind, n |-> n]
\* __init__ of the three agents
NewAgent == [lines |-> <<>>, segments |-> <<>>, history |-> <<>>]

\* The parameters of generate_segment after self, those without a default, and the
\* argument names each caller binds (positional arguments by their parameter).
SegmentParams(agent) ==
    IF agent = "Stat"
      THEN {"context", "nexus_intro", "reco_responses", "turns", "output_prefix"}
      ELSE {"context", "nexus_intro", "turns", "output_prefix"}
SegmentRequired(agent) ==
    IF agent = "Stat" THEN {"context", "nexus_intro", "reco_responses"}
                      ELSE {"context", "nexus_intro"}
SegmentGiven(form, agent) ==
    CASE form = "endpoint" /\ agent = "Stat" ->
             {"context", "nexus_intro", "reco_history", "turns", "output_prefix"}
      [] form = "stat_demo" ->
             {"context", "nexus_intro", "reco_responses", "turns", "output_prefix"}
      [] OTHER -> {"context", "nexus_intro", "turns", "output_prefix"}
\* a variant that accepts any keywords
MutBinds(given, params, required) == TRUE
\* Python's binding of a call's arguments: every name given is a parameter and every
\* parameter without a default is given; otherwise the call raises TypeError.
Binds(given, params, required) == given \subseteq params /\ required \subseteq given

InitAgents ==
    /\ InitSessionIdle /\ InitLLMIdle /\ InitSoftIdle /\ InitOpenIdle
    /\ fn_pc = "agents"
    /\ \E form \in Forms : \E n \in FormTurns(form) :
           /\ fn_arg = [fn |-> "agents", form |-> form, turns |-> n]
           /\ fn_ret = [who |-> FirstAgent(form),
                        at |-> IF FirstAgent(form) = "Nexus" THEN "intro" ELSE "call",
                        k |-> 0,
                        agents |-> [a \in Agents |-> NewAgent],
                        produced |-> <<>>,
                        prompts |-> <<>>,
                        outputs |-> [a \in Agents |-> NoValue],
                        response |-> NoValue,
                        all_ok |-> TRUE]

\* An exception leaves the agent's coroutine: the endpoint's `except Exception` turns
\* it into HTTPException(500); a test or a demo run ends with it.
Raised(st, err) ==
    [st EXCEPT !.at = IF fn_arg.form = "endpoint" THEN "responded" ELSE "raised",
               !.response = IF fn_arg.form = "endpoint"
                              THEN [status |-> 500, detail |-> err]
                              ELSE [exception |-> err]]
\* script_lines.append(line); audio = synth(ssml); audio_segments.append(audio)
Spoken(st, line, synth_ok) ==
    LET a == st.who
        with_line == [st EXCEPT !.agents[a].lines = Append(@, line)]
    IN  IF synth_ok
          THEN [with_line EXCEPT !.agents[a].segments = Append(@, line),
                                 !.produced = Append(@, line)]
          ELSE Raised([with_line EXCEPT !.all_ok = FALSE], "TTS failed")
AgentFrame == UNCHANGED <<fn_pc, fn_arg, sessVars, llmVars, sfVars, openVars>>

\* generate_segment(...) is called: the arguments are bound to the parameters
CallSegment ==
    /\ fn_pc = "agents" /\ fn_ret.at = "call"
    /\ LET a == fn_ret.who
       IN  fn_ret' = IF Binds(SegmentGiven(fn_arg.form, a), SegmentParams(a), SegmentRequired(a))
                       THEN [fn_ret EXCEPT !.at = "intro"]
                       ELSE Raised(fn_ret, "TypeError")
    /\ AgentFrame

\* speak_intro of the three agents
SpeakIntro(synth_ok) ==
    /\ fn_pc = "agents" /\ fn_ret.at = "intro"
    /\ LET a == fn_ret.who
           st == Spoken(fn_ret, AgentTurn(a, "intro", 0), synth_ok)
           then == CASE a = "Nexus" -> "topic"
                     [] fn_arg.turns > 0 -> "turn"
                     [] OTHER -> "write"
       IN  fn_ret' = IF synth_ok THEN [st EXCEPT !.at = then, !.k = 0] ELSE st
    /\ AgentFrame

\* a variant that keeps no history
MutGenerated(st, line, llm_ok, synth_ok) ==
    IF ~llm_ok THEN Raised([st EXCEPT !.all_ok = FALSE], "llm failed")
    ELSE Spoken(st, line, synth_ok)
\* A generated turn: the model call, the polish, then the line, its audio and the
\* history entry.
Generated(st, line, llm_ok, synth_ok) ==
    IF ~llm_ok THEN Raised([st EXCEPT !.all_ok = FALSE], "llm failed")
    ELSE LET sp == Spoken(st, line, synth_ok)
         IN  IF synth_ok THEN [sp EXCEPT !.agents[st.who].history = Append(@, line)] ELSE sp

\* NexusAgent.speak_topic_intro
SpeakTopicIntro(llm_ok, synth_ok) ==
    /\ fn_pc = "agents" /\ fn_ret.at = "topic"
    /\ LET st == Generated(fn_ret, AgentTurn("Nexus", "topic", 0), llm_ok, synth_ok)
       IN  fn_ret' = IF llm_ok /\ synth_ok THEN [st EXCEPT !.at = "outro"] ELSE st
    /\ AgentFrame

\* NexusAgent.speak_outro
SpeakOutro(synth_ok) ==
    /\ fn_pc = "agents" /\ fn_ret.at = "outro"
    /\ LET st == Spoken(fn_ret, AgentTurn("Nexus", "outro", 0), synth_ok)
       IN  fn_ret' = IF synth_ok THEN [st EXCEPT !.at = "write"] ELSE st
    /\ AgentFrame

\* The last n entries of a list, as a set: previous_history[-n:]
LastEntries(list, n) == {list[p] : p \in Max(1, Len(list) - n + 1)..Len(list)}
\* reco_responses as each caller of StatAgent.generate_segment passes it: the demo
\* run passes three lines of Reco, the test passes none.
RecoResponses(form) ==
    IF form = "stat_demo" THEN [p \in 1..3 |-> AgentTurn("Reco", "turn", p)] ELSE <<>>
NoRecoResponse == AgentTurn("none", "[No Reco response provided]", 0)
\* The lines of the conversation that the prompt of generate_turn quotes
\* (Reco_agent.py lines 55-63, Stat_agent.py lines 58-68 and 109-111); k is the
\* 0-based turn index.
PromptLines(form, agent, history, k) ==
    IF agent = "Reco"
      THEN (IF Len(history) > 1 THEN LastEntries(history, 2) ELSE {})
      ELSE {IF k < Len(RecoResponses(form)) THEN RecoResponses(form)[k + 1] ELSE NoRecoResponse}
           \cup (IF Len(history) >= 3 THEN LastEntries(history, 3) ELSE {})

\* one pass of `for turn in range(turns)`: generate_turn of RecoAgent / StatAgent
GenerateTurn(llm_ok, synth_ok) ==
    /\ fn_pc = "agents" /\ fn_ret.at = "turn"
    /\ fn_ret.k < fn_arg.turns
    /\ LET a == fn_ret.who
           prompt == [of |-> AgentTurn(a, "turn", fn_ret.k + 1),
                      quotes |-> PromptLines(fn_arg.form, a, fn_ret.agents[a].history, fn_ret.k)]
           asked == [fn_ret EXCEPT !.prompts = Append(@, prompt)]
           st == Generated(asked, AgentTurn(a, "turn", fn_ret.k + 1), llm_ok, synth_ok)
       IN  fn_ret' = IF llm_ok /\ synth_ok
                       THEN [st EXCEPT !.k = @ + 1,
                                       !.at = IF fn_ret.k + 1 < fn_arg.turns THEN "turn" ELSE "write"]
                       ELSE st
    /\ AgentFrame

\* The end of generate_podcast / generate_segment: write_master, the script file and
\* the returned dict; the endpoint then goes on to the next agent and, after the
\* last one, returns its own dict (Server.py lines 119-124).
ReturnSegment ==
    /\ fn_pc = "agents" /\ fn_ret.at = "write"
    /\ LET a == fn_ret.who
           result == [audio_file |-> a, script_file |-> a,
                      lines |-> fn_ret.agents[a].lines,
                      history |-> fn_ret.agents[a].history]
           st == [fn_ret EXCEPT !.outputs[a] = result]
       IN  fn_ret' = CASE fn_arg.form # "endpoint" -> [st EXCEPT !.at = "returned"]
                       [] a = "Nexus" -> [st EXCEPT !.who = "Reco", !.at = "call"]
                       [] a = "Reco" -> [st EXCEPT !.who = "Stat", !.at = "call"]
                       [] OTHER -> [st EXCEPT !.at = "responded",
                                              !.response = [success |-> TRUE,
                                                            nexus_output |-> st.outputs["Nexus"],
                                                            reco_output |-> st.outputs["Reco"],
                                                            stat_output |-> result]]
    /\ AgentFrame

NextAgents ==
    \/ CallSegment
    \/ \E synth_ok \in BOOLEAN : SpeakIntro(synth_ok)
    \/ \E llm_ok, synth_ok \in BOOLEAN : SpeakTopicIntro(llm_ok, synth_ok)
    \/ \E synth_ok \in BOOLEAN : SpeakOutro(synth_ok)
    \/ \E llm_ok, synth_ok \in BOOLEAN : GenerateTurn(llm_ok, synth_ok)
    \/ ReturnSegment

SpecAgents == InitAgents /\ [][NextAgents]_vars

\* ---------------------------------------------------------------- agents: claims
EndpointRun == fn_pc = "agents" /\ fn_arg.form = "endpoint"
\* positions in the order of production
ProducedAt(speaker, kind) ==
    {p \in 1..Len(fn_ret.produced) :
        fn_ret.produced[p].speaker = speaker /\ fn_ret.produced[p].kind = kind}
ConversationAt ==
    {p \in 1..Len(fn_ret.produced) : fn_ret.produced[p].speaker \in {"Reco", "Stat"}}

\* C27: in a run of the endpoint Nexus's intro and topic intro come first, every
\* Stat turn comes directly after the Reco turn it answers, and Nexus's closing turn
\* comes after every turn of Reco and Stat.
C27_DocumentedOrder ==
    EndpointRun =>
        /\ \A p \in ProducedAt("Nexus", "intro") \cup ProducedAt("Nexus", "topic") :
               \A q \in ConversationAt : p < q
        /\ \A q \in ProducedAt("Stat", "turn") :
               /\ q > 1
               /\ fn_ret.produced[q - 1] = AgentTurn("Reco", "turn", fn_ret.produced[q].n)
        /\ \A p \in ProducedAt("Nexus", "outro") : \A q \in ConversationAt : q < p

\* The run is over: the endpoint answered, or the test's / demo's call returned or raised.
AgentsOver == fn_pc = "agents" /\ fn_ret.at \in {"responded", "returned", "raised"}
\* what the tests assert of a returned segment (Tests_agent.py lines 24-25, 36-37)
SegmentAsserts(agent, result) ==
    /\ \E p \in 1..Len(result.lines) : result.lines[p].speaker = agent
    /\ Len(result.history) > 0

\* C28: when every model call and every synthesis call succeeds, the endpoint
\* answers success with the three agents' outputs, and StatAgent.generate_segment as
\* the test calls it returns lines with Stat's turns and a non-empty history.
C28_SucceedsWhenCallsSucceed ==
    (AgentsOver /\ fn_ret.all_ok) =>
        /\ fn_arg.form = "endpoint" =>
               /\ DOMAIN fn_ret.response = {"success", "nexus_output", "reco_output", "stat_output"}
               /\ fn_ret.response.success
        /\ fn_arg.form = "test_stat" =>
               /\ fn_ret.at = "returned"
               /\ SegmentAsserts("Stat", fn_ret.outputs["Stat"])

\* generate_segment / generate_podcast of the agent has returned its dict
SegmentReturned(agent) == fn_pc = "agents" /\ "lines" \in DOMAIN fn_ret.outputs[agent]
\* the intro followed by the generated turns 1..n of the agent, in order
IntroAndTurns(agent, n) ==
    [p \in 1..(n + 1) |-> IF p = 1 THEN AgentTurn(agent, "intro", 0)
                                   ELSE AgentTurn(agent, "turn", p - 1)]

\* C29: RecoAgent.generate_segment with turns = N >= 1 returns N + 1 script lines,
\* Reco's intro and then its N generated turns, has N + 1 audio segments in the same
\* order, and returns a history of the N generated turns without the intro.
C29_RecoSegmentCounts ==
    (SegmentReturned("Reco") /\ fn_arg.turns >= 1) =>
        LET N == fn_arg.turns
            result == fn_ret.outputs["Reco"]
        IN  /\ Len(result.lines) = N + 1
            /\ result.lines = IntroAndTurns("Reco", N)
            /\ \A p \in 1..(N + 1) : result.lines[p].speaker = "Reco"
            /\ fn_ret.agents["Reco"].segments = result.lines
            /\ Len(result.history) = N
            /\ result.history = [p \in 1..N |-> AgentTurn("Reco", "turn", p)]
\* the segment of the longest run has returned
C29_Witness_LongestSegment ==
    /\ SegmentReturned("Reco")
    /\ fn_arg.turns = MaxAgentTurns
    /\ Len(fn_ret.outputs["Reco"].history) = MaxAgentTurns

\* ============================================================ number of external calls
CallsOf(kind) == {k \in 1..Len(events) : events[k].kind = kind /\ events[k].at = "start"}
FixedSteps == {"nexus_intro", "reco_intro", "stat_intro", "nexus_outro"}
SessionSucceeded == pc = "done" /\ outcome = "success"

\* C30: the four fixed turns make no model call, and a session that completed with
\* budget N made exactly 2N + 1 model calls (the topic intro and one per round-robin
\* turn) and exactly 2N + 5 synthesis calls.
C30_CallCounts ==
    /\ \A k \in CallsOf("llm") : events[k].step \notin FixedSteps
    /\ SessionSucceeded =>
           /\ Cardinality(CallsOf("llm")) = 2 * max_turns + 1
           /\ Cardinality(CallsOf("synth")) = 2 * max_turns + 5

\* C31: in the agents' segments run by the endpoint, the prompt of Stat's k-th turn
\* quotes the finished line of Reco's k-th turn and the prompt of Reco's turn k + 1
\* quotes the finished line of Stat's k-th turn.
C31_PromptQuotesOtherPersona ==
    EndpointRun =>
        \A p \in 1..Len(fn_ret.prompts) :
            LET prompt == fn_ret.prompts[p]
            IN  /\ prompt.of.speaker = "Stat" =>
                       AgentTurn("Reco", "turn", prompt.of.n) \in prompt.quotes
                /\ (prompt.of.speaker = "Reco" /\ prompt.of.n > 1) =>
                       AgentTurn("Stat", "turn", prompt.of.n - 1) \in prompt.quotes

\* ============================================================ polish of one turn
\* FORBIDDEN (podcast_engine.py lines 296-299, Reco_tools.py, Stat_tools.py)
FORBIDDEN ==
    [RECO |-> {<<"a", "b", "s", "o", "l", "u", "t", "e", "l", "y">>, <<"w", "e", "l", "l">>, <<"l", "o", "o", "k">>, <<"s", "u", "r", "e">>, <<"o", "k", "a", "y">>, <<"s", "o">>, <<"l", "i", "s", "t", "e", "n">>,
               <<"h", "e", "y">>, <<"y", "o", "u", " ", "k", "n", "o", "w">>, <<"h", "o", "l", "d", " ", "o", "n">>, <<"r", "i", "g", "h", "t">>, <<"g", "r", "e", "a", "t", " ", "p", "o", "i", "n", "t">>},
     STAT |-> {<<"h", "o", "l", "d", " ", "o", "n">>, <<"a", "c", "t", "u", "a", "l", "l", "y">>, <<"w", "e", "l", "l">>, <<"l", "o", "o", "k">>, <<"s", "o">>, <<"r", "i", "g", "h", "t">>, <<"o", "k", "a", "y">>,
               <<"a", "b", "s", "o", "l", "u", "t", "e", "l", "y">>, <<"y", "o", "u", " ", "k", "n", "o", "w">>, <<"l", "i", "s", "t", "e", "n">>, <<"w", "a", "i", "t">>}]
\* The characters of each opener of OPENERS.
OpenerText ==
    [c \in OPENERS["RECO"] \cup OPENERS["STAT"] |->
        CASE c = "Given that" -> <<"G", "i", "v", "e", "n", " ", "t", "h", "a", "t">>
          [] c = "Looking at this" -> <<"L", "o", "o", "k", "i", "n", "g", " ", "a", "t", " ", "t", "h", "i", "s">>
          [] c = "From that signal" -> <<"F", "r", "o", "m", " ", "t", "h", "a", "t", " ", "s", "i", "g", "n", "a", "l">>
          [] c = "On those figures" -> <<"O", "n", " ", "t", "h", "o", "s", "e", " ", "f", "i", "g", "u", "r", "e", "s">>
          [] c = "Based on the last month" -> <<"B", "a", "s", "e", "d", " ", "o", "n", " ", "t", "h", "e", " ", "l", "a", "s", "t", " ", "m", "o", "n", "t", "h">>
          [] c = "If we take the trend" -> <<"I", "f", " ", "w", "e", " ", "t", "a", "k", "e", " ", "t", "h", "e", " ", "t", "r", "e", "n", "d">>
          [] c = "Against YTD context" -> <<"A", "g", "a", "i", "n", "s", "t", " ", "Y", "T", "D", " ", "c", "o", "n", "t", "e", "x", "t">>
          [] c = "From a planning view" -> <<"F", "r", "o", "m", " ", "a", " ", "p", "l", "a", "n", "n", "i", "n", "g", " ", "v", "i", "e", "w">>
          [] c = "Data suggests" -> <<"D", "a", "t", "a", " ", "s", "u", "g", "g", "e", "s", "t", "s">>
          [] c = "From the integrity check" -> <<"F", "r", "o", "m", " ", "t", "h", "e", " ", "i", "n", "t", "e", "g", "r", "i", "t", "y", " ", "c", "h", "e", "c", "k">>
          [] c = "The safer interpretation" -> <<"T", "h", "e", " ", "s", "a", "f", "e", "r", " ", "i", "n", "t", "e", "r", "p", "r", "e", "t", "a", "t", "i", "o", "n">>
          [] c = "Statistically speaking" -> <<"S", "t", "a", "t", "i", "s", "t", "i", "c", "a", "l", "l", "y", " ", "s", "p", "e", "a", "k", "i", "n", "g">>
          [] c = "Given the variance profile" -> <<"G", "i", "v", "e", "n", " ", "t", "h", "e", " ", "v", "a", "r", "i", "a", "n", "c", "e", " ", "p", "r", "o", "f", "i", "l", "e">>
          [] c = "From the control limits" -> <<"F", "r", "o", "m", " ", "t", "h", "e", " ", "c", "o", "n", "t", "r", "o", "l", " ", "l", "i", "m", "i", "t", "s">>
          [] c = "Relative to seasonality" -> <<"R", "e", "l", "a", "t", "i", "v", "e", " ", "t", "o", " ", "s", "e", "a", "s", "o", "n", "a", "l", "i", "t", "y">>
          [] c = "From the timestamp audit" -> <<"F", "r", "o", "m", " ", "t", "h", "e", " ", "t", "i", "m", "e", "s", "t", "a", "m", "p", " ", "a", "u", "d", "i", "t">>]

\* str.lstrip(chars) / str.strip(chars)
RECURSIVE LStripSet(_, _)
LStripSet(t, cs) == IF t # <<>> /\ Head(t) \in cs THEN LStripSet(Tail(t), cs) ELSE t
RECURSIVE RStripSet(_, _)
RStripSet(t, cs) ==
    IF t # <<>> /\ t[Len(t)] \in cs THEN RStripSet(SubSeq(t, 1, Len(t) - 1), cs) ELSE t
StripSet(t, cs) == RStripSet(LStripSet(t, cs), cs)
\* (t.split()[:1] or [""])[0]
RECURSIVE UpToWhitespace(_)
UpToWhitespace(t) ==
    IF t = <<>> \/ Head(t) \in Whitespace THEN <<>> ELSE <<Head(t)>> \o UpToWhitespace(Tail(t))
FirstToken(t) == UpToWhitespace(LStrip(t))

\* the characters of lstrip(" ,.-" and the two dashes)
EnDash == "EN DASH"
EmDash == "EM DASH"
AfterForbidden == {" ", ",", ".", "-", EnDash, EmDash}
\* if low.startswith(w + " ") or low == w
ForbiddenAt(low, w) == IsPrefix(w \o <<" ">>, low) \/ low = w
\* strip_forbidden(text, role): the longest forbidden phrase that matches is cut from
\* the text as given (not from the stripped copy that was matched).
strip_forbidden(text, role) ==
    LET low == LowerText(Strip(text))
        matches == {w \in FORBIDDEN[role] : ForbiddenAt(low, w)}
    IN  IF matches = {} THEN text
        ELSE LET w == CHOOSE w \in matches : \A v \in matches : Len(v) <= Len(w)
             IN  LStripSet(SubSeq(text, Len(w) + 1, Len(text)), AfterForbidden)

\* vary_opening(text, role, last_open) with the draws of random: below40 is
\* random.random() < 0.4, cand the first random.choice and again the second.
\* Returns the text, the opener inserted ("" if none) and the memory afterwards.
vary_opening(text, role, last, below40, cand, again) ==
    LET t == strip_forbidden(text, role)
        first == LowerText(StripSet(FirstToken(t), {",", ".", " "}))
        pool == RedrawPool(role, cand)
        chosen == IF last[role] = cand THEN (IF pool # {} THEN again ELSE cand) ELSE cand
    IN  IF first \in FORBIDDEN[role] \/ first = <<>> \/ below40
          THEN [text |-> OpenerText[chosen] \o <<",", " ">> \o t,
                opener |-> chosen,
                last_open |-> [last EXCEPT ![role] = chosen]]
          ELSE [text |-> t, opener |-> "", last_open |-> last]

\* emotional_triggers, in the order of the dict
emotional_triggers ==
    <<[trigger |-> <<"d", "r", "a", "m", "a", "t", "i", "c">>,
       reactions |-> <<<<"T", "h", "a", "t", "'", "s", " ", "q", "u", "i", "t", "e", " ", "a", " ", "d", "r", "a", "m", "a", "t", "i", "c", " ", "s", "h", "i", "f", "t", "!", " ">>, <<"T", "h", "i", "s", " ", "i", "s", " ", "s", "i", "g", "n", "i", "f", "i", "c", "a", "n", "t", "!", " ">>, <<"W", "h", "a", "t", " ", "a", " ", "s", "u", "b", "s", "t", "a", "n", "t", "i", "a", "l", " ", "c", "h", "a", "n", "g", "e", "!", " ">>>>],
      [trigger |-> <<"c", "o", "n", "c", "e", "r", "n", "i", "n", "g">>,
       reactions |-> <<<<"T", "h", "i", "s", " ", "i", "s", " ", "c", "o", "n", "c", "e", "r", "n", "i", "n", "g", ".", " ">>, <<"T", "h", "a", "t", " ", "w", "o", "r", "r", "i", "e", "s", " ", "m", "e", " ", "s", "l", "i", "g", "h", "t", "l", "y", ".", " ">>, <<"W", "e", " ", "s", "h", "o", "u", "l", "d", " ", "k", "e", "e", "p", " ", "a", "n", " ", "e", "y", "e", " ", "o", "n", " ", "t", "h", "i", "s", ".", " ">>>>],
      [trigger |-> <<"p", "o", "s", "i", "t", "i", "v", "e">>,
       reactions |-> <<<<"T", "h", "a", "t", "'", "s", " ", "e", "n", "c", "o", "u", "r", "a", "g", "i", "n", "g", "!", " ">>, <<"T", "h", "i", "s", " ", "i", "s", " ", "p", "o", "s", "i", "t", "i", "v", "e", " ", "n", "e", "w", "s", ".", " ">>, <<"I", "'", "m", " ", "p", "l", "e", "a", "s", "e", "d", " ", "t", "o", " ", "s", "e", "e", " ", "t", "h", "i", "s", " ", "i", "m", "p", "r", "o", "v", "e", "m", "e", "n", "t", ".", " ">>>>],
      [trigger |-> <<"s", "u", "r", "p", "r", "i", "s", "i", "n", "g">>,
       reactions |-> <<<<"T", "h", "a", "t", "'", "s", " ", "s", "u", "r", "p", "r", "i", "s", "i", "n", "g", "!", " ">>, <<"I", " ", "d", "i", "d", "n", "'", "t", " ", "e", "x", "p", "e", "c", "t", " ", "t", "h", "a", "t", " ", "r", "e", "s", "u", "l", "t", ".", " ">>, <<"T", "h", "i", "s", " ", "i", "s", " ", "u", "n", "e", "x", "p", "e", "c", "t", "e", "d", ".", " ">>>>]>>
\* _add_emotional_reactions(text, role): hits[k] is random.random() < 0.4 at the k-th
\* trigger, pick the draw of random.choice.
_add_emotional_reactions(text, hits, pick) ==
    LET fired == {k \in 1..Len(emotional_triggers) :
                     Contains(LowerText(text), emotional_triggers[k].trigger) /\ hits[k]}
    IN  IF fired = {} THEN text
        ELSE LET k == CHOOSE k \in fired : \A j \in fired : k <= j
                 reaction == Choice(emotional_triggers[k].reactions, pick)
                 commas == {p \in 1..Len(text) : text[p] = ","}
             IN  IF commas # {}
                   THEN LET c == CHOOSE c \in commas : \A d \in commas : c <= d
                        IN  SubSeq(text, 1, c - 1) \o <<",", " ">> \o reaction
                                \o LStrip(SubSeq(text, c + 1, Len(text)))
                   ELSE reaction \o text

\* One round-robin turn from the model's raw output to the final line, in the three
\* orchestrators. fn_arg holds the variant, the persona, the pair and the raw output;
\* fn_ret the text so far and the opener inserted.
PolishVariants == {"run_podcast", "graph", "agents"}
PolishPairs == {1, MaxPair}
PolishRaws ==
    { <<>>,
      <<"*", "*", "*">>,
      <<"C", "o", "s", "t", "s", " ", "f", "e", "l", "l">>,
      <<"W", "e", "l", "l", ",", " ", "c", "o", "s", "t", "s", " ", "f", "e", "l", "l">>,
      <<"w", "e", "l", "l", " ", "c", "o", "s", "t", "s", " ", "f", "e", "l", "l">>,
      <<"Y", "o", "u", " ", "k", "n", "o", "w", ",", " ", "c", "o", "s", "t", "s", " ", "f", "e", "l", "l">>,
      <<"H", "o", "l", "d", " ", "o", "n", " ", "h", "o", "l", "d", " ", "o", "n", " ", "n", "o", "w">>,
      <<"T", "h", "i", "s", " ", "i", "s", " ", "s", "u", "r", "p", "r", "i", "s", "i", "n", "g", ",", " ", "b", "u", "t", " ", "r", "i", "g", "h", "t">> }
\* the opener memory before the turn: Reco has inserted an opener, Stat none yet
PolishMemories == {[RECO |-> "Given that", STAT |-> ""]}

\* The outcomes of random that are followed: two openers of each persona, and for
\* the dynamics no draw below its threshold, or the draws that let one embellishment
\* (each of its two forms) happen.
PolishOpeners ==
    [RECO |-> {"Given that", "Looking at this"}, STAT |-> {"Data suggests", "Statistically speaking"}]
NoDraw ==
    [build30 |-> FALSE, ack20 |-> FALSE, name70 |-> FALSE, surprise25 |-> FALSE,
     interrupt |-> FALSE, half |-> FALSE, agree35 |-> FALSE, ratio |-> FALSE]
PolishDraws ==
    { NoDraw,
      [NoDraw EXCEPT !.name70 = TRUE],
      [NoDraw EXCEPT !.name70 = TRUE, !.build30 = TRUE, !.ack20 = TRUE],
      [NoDraw EXCEPT !.surprise25 = TRUE],
      [NoDraw EXCEPT !.interrupt = TRUE],
      [NoDraw EXCEPT !.interrupt = TRUE, !.half = TRUE],
      [NoDraw EXCEPT !.agree35 = TRUE],
      [NoDraw EXCEPT !.agree35 = TRUE, !.ratio = TRUE] }
PolishHits == {[k \in 1..4 |-> FALSE], [k \in 1..4 |-> TRUE]}

\* last_speaker, turn_count and len(conversation_history) as each orchestrator passes
\* them to the conversational dynamics for the turn of `role` in pair `pair`.
PolishCall(variant, role, pair) ==
    CASE variant = "run_podcast" ->
             [last_speaker |-> LastSpeaker(role, pair), turn_count |-> LoopIndex(pair),
              history_len |-> HistoryLen(role, pair)]
      [] variant = "graph" ->
             [last_speaker |-> IF role = "RECO" THEN "STAT" ELSE "RECO",
              turn_count |-> pair - 1,
              history_len |-> 4 + 2 * (pair - 1) + (IF role = "STAT" THEN 1 ELSE 0)]
      [] OTHER ->
             [last_speaker |-> IF pair = 1 THEN "" ELSE IF role = "RECO" THEN "Reco" ELSE "Stat",
              turn_count |-> pair - 1,
              history_len |-> pair - 1]

InitPolish ==
    /\ InitSessionIdle /\ InitLLMIdle /\ InitSoftIdle
    /\ last_open \in PolishMemories
    /\ open_prev = [r \in Roles |-> ""] /\ open_now = [r \in Roles |-> ""]
    /\ fn_pc = "raw"
    /\ \E variant \in PolishVariants, role \in Roles, pair \in PolishPairs, raw \in PolishRaws :
           /\ fn_arg = [fn |-> "polish", variant |-> variant, role |-> role, pair |-> pair,
                        raw |-> raw, before |-> last_open]
           \* llm(...) returns ensure_complete_sentence(out) on every path of llm_safe;
           \* the agents' generate_reco_turn / generate_stat_turn may return anything
           /\ fn_ret = [text |-> IF variant = "agents" THEN raw ELSE ensure_complete_sentence(raw),
                        opener |-> ""]
PolishFrame == UNCHANGED <<fn_arg, sessVars, llmVars, sfVars>>

\* line = vary_opening(line, role, last_openings)
PolishVaryOpening(below40, cand, again) ==
    /\ fn_pc = "raw" /\ fn_arg.fn = "polish"
    /\ cand \in PolishOpeners[fn_arg.role]
    /\ LET pool == RedrawPool(fn_arg.role, cand)
           v == vary_opening(fn_ret.text, fn_arg.role, last_open, below40, cand, again)
       IN  /\ (last_open[fn_arg.role] = cand /\ pool # {}) => again \in pool
           /\ (last_open[fn_arg.role] # cand \/ pool = {}) => again = cand
           /\ fn_ret' = [text |-> v.text, opener |-> v.opener]
           /\ last_open' = v.last_open
           /\ open_now' = [open_now EXCEPT ![fn_arg.role] = v.opener]
           /\ open_prev' = [open_prev EXCEPT ![fn_arg.role] = open_now[fn_arg.role]]
    /\ fn_pc' = "varied"
    /\ PolishFrame

\* line = _add_conversation_dynamics(line, role, last_speaker, context, turn, history)
PolishDynamics(draw, pick) ==
    /\ fn_pc = "varied" /\ fn_arg.fn = "polish"
    /\ LET c == PolishCall(fn_arg.variant, fn_arg.role, fn_arg.pair)
           a == DynCall(fn_ret.text, fn_arg.role, c.last_speaker, c.turn_count,
                        c.history_len, draw, pick)
       IN  fn_ret' = [fn_ret EXCEPT !.text = _add_conversation_dynamics(a).text]
    /\ fn_pc' = "dynamics"
    /\ UNCHANGED openVars
    /\ PolishFrame

\* line = _add_emotional_reactions(line, role): run_podcast and the agents only
PolishReactions(hits, pick) ==
    /\ fn_pc = "dynamics" /\ fn_arg.fn = "polish"
    /\ fn_arg.variant # "graph"
    /\ fn_ret' = [fn_ret EXCEPT !.text = _add_emotional_reactions(@, hits, pick)]
    /\ fn_pc' = "reacted"
    /\ UNCHANGED openVars
    /\ PolishFrame

\* The end of the polish: run_podcast and the agents clean repetitions and then
\* complete the sentence; graph.py completes it (its own ensure_complete_response,
\* lines 129-134) and then cleans repetitions.
PolishFinish ==
    /\ fn_arg.fn = "polish"
    /\ fn_pc = IF fn_arg.variant = "graph" THEN "dynamics" ELSE "reacted"
    /\ fn_ret' = [fn_ret EXCEPT !.text =
                      IF fn_arg.variant = "graph"
                        THEN _clean_repetition(ensure_complete_sentence(@))
                        ELSE ensure_complete_response(_clean_repetition(@))]
    /\ fn_pc' = "final"
    /\ UNCHANGED openVars
    /\ PolishFrame

NextPolish ==
    \/ \E below40 \in BOOLEAN :
           \E cand, again \in PolishOpeners["RECO"] \cup PolishOpeners["STAT"] :
               PolishVaryOpening(below40, cand, again)
    \/ \E draw \in PolishDraws, pick \in 1..4 : PolishDynamics(draw, pick)
    \/ \E hits \in PolishHits, pick \in 1..3 : PolishReactions(hits, pick)
    \/ PolishFinish

SpecPolish == InitPolish /\ [][NextPolish]_vars

\* The text begins with a phrase of the persona's forbidden set, whatever the case,
\* as whole words.
StartsForbidden(text, role) ==
    LET low == LowerText(LStrip(text))
    IN  \E w \in FORBIDDEN[role] :
            /\ IsPrefix(w, low)
            /\ (Len(low) > Len(w) => ~IsWordChar(low[Len(w) + 1]))
PolishAt(stages) == fn_arg.fn = "polish" /\ fn_pc \in stages

\* C32: after vary_opening, and again after the conversational dynamics, the
\* emotional reactions and the end of the polish, the turn's text does not begin
\* with a phrase of the speaking persona's forbidden set.
C32_NoForbiddenOpener ==
    PolishAt({"varied", "dynamics", "reacted", "final"}) =>
        ~StartsForbidden(fn_ret.text, fn_arg.role)

\* C33: the final text of a round-robin turn is not empty and ends in ".", "!" or
\* "?", whatever the model returned and whatever random drew, with sentence
\* completion last (run_podcast, agents) or before the repetition cleanup (graph.py).
C33_FinalTextTerminated ==
    PolishAt({"final"}) => (fn_ret.text # <<>> /\ EndsInTerminator(fn_ret.text))
\* the model returned the empty string and the graph's polish has ended
C33_Witness_EmptyRaw ==
    /\ PolishAt({"final"})
    /\ fn_arg.raw = <<>>
    /\ fn_arg.variant = "graph"
    /\ EndsInTerminator(fn_ret.text)

\* ============================================================ opener memory in run_podcast
\* run_podcast reduced to what touches last_openings: the fixed lines and the topic
\* intro, which never call vary_opening, and the round-robin turns, which call it
\* once each. fn_pc is the step to run, fn_arg.turns the number of pairs, and fn_ret
\* records the last step run, the opener it inserted and the loop index.
MemSteps == {"nexus_intro", "reco_intro", "stat_intro", "topic_intro", "nexus_outro"}
StepAfter(step, k, turns) ==
    CASE step = "nexus_intro" -> "reco_intro"
      [] step = "reco_intro" -> "stat_intro"
      [] step = "stat_intro" -> "topic_intro"
      [] step = "topic_intro" -> IF turns > 0 THEN "reco_turn" ELSE "nexus_outro"
      [] step = "reco_turn" -> "stat_turn"
      [] step = "stat_turn" -> IF k + 1 < turns THEN "reco_turn" ELSE "nexus_outro"
      [] OTHER -> "done"
\* a variant that stores the opener for every persona
MutStoreOpener(last, role, opener) == [r \in Roles |-> opener]
\* last_open[role] = cand
StoreOpener(last, role, opener) == [last EXCEPT ![role] = opener]

InitMemory ==
    /\ InitSessionIdle /\ InitLLMIdle /\ InitSoftIdle /\ InitOpenIdle
    /\ fn_pc = "nexus_intro"
    /\ \E n \in 0..MaxTurns : fn_arg = [fn |-> "memory", turns |-> n]
    /\ fn_ret = [step |-> "start", role |-> "", opener |-> "", k |-> 0, before |-> last_open]
MemFrame == UNCHANGED <<fn_arg, sessVars, llmVars, sfVars>>

\* a fixed line or the topic intro: text, ssml, synth; no polish
MemFixedTurn ==
    /\ fn_arg.fn = "memory" /\ fn_pc \in MemSteps
    /\ fn_ret' = [fn_ret EXCEPT !.step = fn_pc, !.role = "NEXUS", !.opener = "",
                                !.before = last_open]
    /\ fn_pc' = StepAfter(fn_pc, fn_ret.k, fn_arg.turns)
    /\ UNCHANGED openVars
    /\ MemFrame

\* a round-robin turn: vary_opening(response, role, last_openings) with its draws
MemRoundRobinTurn(first, below40, cand, again) ==
    /\ fn_arg.fn = "memory" /\ fn_pc \in {"reco_turn", "stat_turn"}
    /\ LET role == IF fn_pc = "reco_turn" THEN "RECO" ELSE "STAT"
           pool == RedrawPool(role, cand)
           chosen == IF last_open[role] = cand
                       THEN (IF pool # {} THEN again ELSE cand)
                       ELSE cand
           inserted == InsertsOpener(first, below40)
       IN  /\ cand \in OPENERS[role]
           /\ (last_open[role] = cand /\ pool # {}) => again \in pool
           /\ (last_open[role] # cand \/ pool = {}) => again = cand
           /\ last_open' = IF inserted THEN StoreOpener(last_open, role, chosen) ELSE last_open
           /\ open_now' = [open_now EXCEPT ![role] = IF inserted THEN chosen ELSE ""]
           /\ open_prev' = [open_prev EXCEPT ![role] = open_now[role]]
           /\ fn_ret' = [fn_ret EXCEPT !.step = fn_pc, !.role = role,
                                       !.opener = IF inserted THEN chosen ELSE "",
                                       !.k = IF fn_pc = "stat_turn" THEN @ + 1 ELSE @,
                                       !.before = last_open]
    /\ fn_pc' = StepAfter(fn_pc, fn_ret.k, fn_arg.turns)
    /\ MemFrame

NextMemory ==
    \/ MemFixedTurn
    \/ \E first \in FirstKinds, below40 \in BOOLEAN :
           \E cand, again \in OPENERS["RECO"] \cup OPENERS["STAT"] :
               MemRoundRobinTurn(first, below40, cand, again)

SpecMemory == InitMemory /\ [][NextMemory]_vars

\* C34: the opener memory changes only in a round-robin turn that inserted an
\* opener, and then only the speaking persona's entry, which becomes that opener;
\* every other step leaves the whole table as it was.
C34_MemoryFrame ==
    fn_arg.fn = "memory" =>
        IF fn_ret.step \in {"reco_turn", "stat_turn"} /\ fn_ret.opener # ""
          THEN /\ last_open[fn_ret.role] = fn_ret.opener
               /\ \A r \in Roles \ {fn_ret.role} : last_open[r] = fn_ret.before[r]
          ELSE last_open = fn_ret.before
\* Reco inserted an opener while Stat's entry held one, and Stat's entry is untouched
C34_Witness_OtherEntryKept ==
    /\ fn_arg.fn = "memory"
    /\ fn_ret.step = "reco_turn"
    /\ fn_ret.opener = "Looking at this"
    /\ fn_ret.before = [RECO |-> "Given that", STAT |-> "Data suggests"]
    /\ last_open = [RECO |-> "Looking at this", STAT |-> "Data suggests"]

\* ============================================================ conversation history
\* The step taken is a round-robin turn whose model call and synthesis succeeded.
TurnCompleted ==
    /\ pc \in {"reco_turn", "stat_turn"}
    /\ Len(audio_segments') = Len(audio_segments) + 1
\* the persona of a history entry, whichever way the orchestrator spells it
SpeakerOf(entry) ==
    IF entry.speaker \in {"Reco", "RECO"} THEN "reco_turn"
    ELSE IF entry.speaker \in {"Stat", "STAT"} THEN "stat_turn" ELSE "other"

\* C35: every step of a session leaves the conversation history as it was or adds
\* one entry at its end, and a completed round-robin turn adds exactly one entry,
\* with the turn's speaker and the text of the line it produced.
C35_HistoryAppendOnly ==
    [][ /\ IsPrefix(conversation_history, conversation_history')
        /\ Len(conversation_history') <= Len(conversation_history) + 1
        /\ TurnCompleted =>
               /\ Len(conversation_history') = Len(conversation_history) + 1
               /\ LET entry == conversation_history'[Len(conversation_history')]
                      line == script_lines'[Len(script_lines')]
                  IN  SpeakerOf(entry) = pc /\ entry.text = line.text /\ entry.pair = line.pair
      ]_vars
\* ---------------------------------------------------------------------------
\* llm_safe: length of the call chain
\* ---------------------------------------------------------------------------
LLMEnded == llm_pc \in {"returned", "raised"}
TierOrder == [first |-> 1, retry |-> 2, soft |-> 3, minimal |-> 4]

\* C36: llm_safe makes at most four model calls and every step of it is one more
\* call, so it ends after at most four; no tier is entered twice (the tiers of the
\* calls made run strictly forward through first, retry, soft, minimal); and it
\* ends either with a returned string, obtained from a call that succeeded, or with
\* the error raised by the last call it made.
C36_AtMostFourCalls ==
    /\ [](/\ Len(calls) <= 4
          /\ Len(calls) = 4 => LLMEnded
          /\ \A a, b \in 1..Len(calls) :
                 a < b => TierOrder[calls[a].tier] < TierOrder[calls[b].tier]
          /\ llm_pc = "returned" =>
                 /\ llm_result # NoResult
                 /\ llm_error = "none"
                 /\ LastCall.outcome = "ok"
          /\ llm_pc = "raised" =>
                 /\ llm_result = NoResult
                 /\ LastCall.outcome # "ok"
                 /\ llm_error = LastCall.outcome)
    /\ [][~LLMEnded /\ Len(calls') = Len(calls) + 1]_vars
\* all four tiers were called and the last call's error left llm_safe
C36_Witness_FourCallsRaised ==
    /\ llm_pc = "raised"
    /\ Len(calls) = 4
    /\ LastCall.tier = "minimal"
    /\ llm_error = LastCall.outcome
\* the chain ends with a string after the fourth call
C36_Witness_FourCallsReturned ==
    /\ llm_pc = "returned"
    /\ Len(calls) = 4
    /\ calls[2].tier = "retry"
\* ---------------------------------------------------------------------------
\* graph.py: current_speaker and current_turn
\* ---------------------------------------------------------------------------
\* the persona whose line each node produces
GraphPersona ==
    [nexus_intro |-> "NEXUS", reco_intro |-> "RECO", stat_intro |-> "STAT",
     nexus_topic_intro |-> "NEXUS", reco_turn |-> "RECO", stat_turn |-> "STAT",
     nexus_outro |-> "NEXUS"]
\* the round-robin turns in the history
RoundRobinTurns == SelectSeq(conversation_history, LAMBDA h : h.pair > 0)
\* current_speaker names the persona of the node about to run, END once the outro ran
SpeakerNamesNextNode ==
    /\ pc \in DOMAIN GraphPersona => current_speaker = GraphPersona[pc]
    /\ (conversation_history # <<>>
          /\ conversation_history[Len(conversation_history)].text = "NEXUS_OUTRO")
            => current_speaker = "END"
\* current_turn (in half pairs) counts the round-robin turns taken
TurnCountsHalfPairs == current_turn = Len(RoundRobinTurns)
TurnWithinBudget == current_turn <= 2 * max_turns

\* C37: in a graph session, current_speaker always names the persona of the node
\* that runs next (END after nexus_outro), for every max_turns; current_turn after
\* the k-th round-robin turn is k/2 and never exceeds max_turns.
C37_SpeakerAndTurn ==
    impl = "graph" =>
        /\ SpeakerNamesNextNode
        /\ TurnCountsHalfPairs
        /\ TurnWithinBudget
\* the same for a budget of at least one pair
C37_HoldsForPositiveBudget ==
    (impl = "graph" /\ max_turns >= 1) =>
        /\ SpeakerNamesNextNode
        /\ TurnCountsHalfPairs
        /\ TurnWithinBudget
\* the count alone, for every budget
C37_TurnCountHolds == impl = "graph" => TurnCountsHalfPairs
\* ---------------------------------------------------------------------------
\* final artifacts of concurrent sessions (SpecPaths)
\* ---------------------------------------------------------------------------
\* the clock runs in ticks finer than the second the file names keep
MaxClock == 3
TicksPerSecond == 2
\* datetime.datetime.now().strftime("%Y%m%d_%H%M%S"): the time cut to whole seconds
Timestamp(t) == t \div TicksPerSecond
NoStamp == -1
\* f"podcast_{timestamp}.wav", f"podcast_script_{timestamp}.txt"
StampedPath(stem, t, suffix) ==
    [stem |-> stem, tag |-> "", stamp |-> Timestamp(t), suffix |-> suffix]
\* f"{output_prefix}.wav", f"{output_prefix}_script.txt" with the endpoint's
\* f"{request.output_prefix}_nexus" / "_reco"
PrefixPath(prefix, agent, suffix) ==
    [stem |-> prefix, tag |-> agent, stamp |-> NoStamp, suffix |-> suffix]
\* the final files one step of a session writes
SessionPaths(kind, prefix, t, step) ==
    CASE kind \in {"run_podcast", "graph"} ->
            {StampedPath("podcast_", t, ".wav"), StampedPath("podcast_script_", t, ".txt")}
      [] kind = "endpoint" /\ step = "start" ->
            {PrefixPath(prefix, "_nexus", ".wav"), PrefixPath(prefix, "_nexus", "_script.txt")}
      [] kind = "endpoint" /\ step = "nexus" ->
            {PrefixPath(prefix, "_reco", ".wav"), PrefixPath(prefix, "_reco", "_script.txt")}
\* PodcastRequest.output_prefix: Optional[str] = "podcast_output"
DefaultPrefix == "podcast_output"
PathKinds == {"run_podcast", "graph", "endpoint"}
PathPrefixes == {DefaultPrefix, "monday", "tuesday"}
PathSessions == {1, 2}

InitPaths ==
    /\ InitSessionIdle /\ InitLLMIdle /\ InitSoftIdle /\ InitOpenIdle
    /\ fn_pc = "paths"
    /\ \E kinds \in [PathSessions -> PathKinds], prefixes \in [PathSessions -> PathPrefixes] :
          /\ \A s \in PathSessions : kinds[s] # "endpoint" => prefixes[s] = DefaultPrefix
          /\ fn_arg = [fn |-> "paths", kind |-> kinds, prefix |-> prefixes]
    /\ fn_ret = [clock |-> 0, at |-> [s \in PathSessions |-> "start"], written |-> {}]
PathFrame == UNCHANGED <<fn_pc, fn_arg, sessVars, llmVars, sfVars, openVars>>

\* time passes while the sessions run
PathTick ==
    /\ fn_arg.fn = "paths"
    /\ fn_ret.clock < MaxClock
    /\ fn_ret' = [fn_ret EXCEPT !.clock = @ + 1]
    /\ PathFrame

\* run_podcast and graph.generate_podcast: after the last turn, write_master and the
\* script file under the same timestamp
PathWriteStamped(s) ==
    /\ fn_arg.fn = "paths"
    /\ fn_arg.kind[s] \in {"run_podcast", "graph"}
    /\ fn_ret.at[s] = "start"
    /\ fn_ret' = [fn_ret EXCEPT
          !.at[s] = "done",
          !.written = @ \cup {[path |-> p, by |-> s] :
                                 p \in SessionPaths(fn_arg.kind[s], fn_arg.prefix[s],
                                                    fn_ret.clock, "start")}]
    /\ PathFrame

\* /generate-podcast: nexus.generate_podcast, then reco.generate_segment, each
\* writing its audio and script under the request's prefix
PathWriteAgent(s) ==
    /\ fn_arg.fn = "paths"
    /\ fn_arg.kind[s] = "endpoint"
    /\ fn_ret.at[s] \in {"start", "nexus"}
    /\ fn_ret' = [fn_ret EXCEPT
          !.at[s] = IF @ = "start" THEN "nexus" ELSE "done",
          !.written = @ \cup {[path |-> p, by |-> s] :
                                 p \in SessionPaths(fn_arg.kind[s], fn_arg.prefix[s],
                                                    fn_ret.clock, fn_ret.at[s])}]
    /\ PathFrame

NextPaths ==
    \/ PathTick
    \/ \E s \in PathSessions : PathWriteStamped(s)
    \/ \E s \in PathSessions : PathWriteAgent(s)

SpecPaths == InitPaths /\ [][NextPaths]_vars

PathsOf(s) == {w.path : w \in {x \in fn_ret.written : x.by = s}}

\* C38: two sessions running concurrently in one process never write a final audio
\* file or a transcript to the same path.
C38_DistinctArtifacts ==
    fn_arg.fn = "paths" =>
        \A s, t \in PathSessions : s # t => PathsOf(s) \cap PathsOf(t) = {}
\* the same for timestamped sessions that finish in different seconds and requests
\* with different prefixes
C38_HoldsWhenNamesDiffer ==
    fn_arg.fn = "paths" =>
        \A s, t \in PathSessions :
            (/\ s # t
             /\ (fn_arg.kind[s] # "endpoint" /\ fn_arg.kind[t] # "endpoint") =>
                    \A p \in PathsOf(s), q \in PathsOf(t) : p.stamp # q.stamp
             /\ (fn_arg.kind[s] = "endpoint" /\ fn_arg.kind[t] = "endpoint") =>
                    fn_arg.prefix[s] # fn_arg.prefix[t])
                => PathsOf(s) \cap PathsOf(t) = {}
\* two sessions finished within one second
C38_SameSecond ==
    /\ fn_arg.fn = "paths"
    /\ \A s \in PathSessions : fn_arg.kind[s] # "endpoint" /\ fn_ret.at[s] = "done"
    /\ \E p \in PathsOf(1), q \in PathsOf(2) : p.stamp = q.stamp
\* two requests with the default prefix wrote their Nexus segment
C38_DefaultPrefixTwice ==
    /\ fn_arg.fn = "paths"
    /\ \A s \in PathSessions :
          /\ fn_arg.kind[s] = "endpoint" /\ fn_arg.prefix[s] = DefaultPrefix
          /\ fn_ret.at[s] # "start"
\* ---------------------------------------------------------------------------
\* graph.py: the shared set of websocket connections (SpecWs)
\* ---------------------------------------------------------------------------
WsConnections == {"ws1", "ws2"}
WsBroadcasts == {1, 2}
NoConnection == "none"

\* _websocket_connections.remove(x): set.remove raises KeyError when x is absent
SetRemove(conns, x) ==
    IF x \in conns THEN [conns |-> conns \ {x}, raised |-> "none"]
                   ELSE [conns |-> conns, raised |-> "KeyError"]

\* the tasks of one event loop: a handler per connection, and broadcasts of the
\* sessions that stream events; `removals` counts the remove calls per connection
InitWs ==
    /\ InitSessionIdle /\ InitLLMIdle /\ InitSoftIdle /\ InitOpenIdle
    /\ fn_pc = "ws"
    /\ fn_arg = [fn |-> "ws"]
    /\ fn_ret = [conns |-> {}, closed |-> {},
                 handler |-> [c \in WsConnections |-> "none"],
                 bc |-> [b \in WsBroadcasts |-> "idle"],
                 todo |-> [b \in WsBroadcasts |-> {}],
                 cur |-> [b \in WsBroadcasts |-> NoConnection],
                 removals |-> [c \in WsConnections |-> 0]]
WsFrame == UNCHANGED <<fn_pc, fn_arg, sessVars, llmVars, sfVars, openVars>>

\* websocket_server: _websocket_connections.add(websocket); await websocket.wait_closed()
WsConnect(c) ==
    /\ fn_arg.fn = "ws"
    /\ fn_ret.handler[c] = "none"
    /\ fn_ret' = [fn_ret EXCEPT !.conns = @ \cup {c}, !.handler[c] = "waiting"]
    /\ WsFrame

\* the peer goes away: sends on the connection fail from now on, and wait_closed
\* will return when the handler is next scheduled
WsClose(c) ==
    /\ fn_arg.fn = "ws"
    /\ fn_ret.handler[c] = "waiting"
    /\ c \notin fn_ret.closed
    /\ fn_ret' = [fn_ret EXCEPT !.closed = @ \cup {c}]
    /\ WsFrame

\* websocket_server resumes: finally: _websocket_connections.remove(websocket)
WsHandlerFinally(c) ==
    /\ fn_arg.fn = "ws"
    /\ fn_ret.handler[c] = "waiting"
    /\ c \in fn_ret.closed
    /\ LET r == SetRemove(fn_ret.conns, c) IN
       fn_ret' = [fn_ret EXCEPT !.conns = r.conns,
                                !.removals[c] = @ + 1,
                                !.handler[c] = IF r.raised = "none" THEN "done" ELSE r.raised]
    /\ WsFrame

\* broadcast_websocket_message: if not _websocket_connections: return;
\* for connection in _websocket_connections.copy(): ...
WsBroadcastStart(b) ==
    /\ fn_arg.fn = "ws"
    /\ fn_ret.bc[b] = "idle"
    /\ fn_ret' = IF fn_ret.conns = {}
                   THEN fn_ret
                   ELSE [fn_ret EXCEPT !.bc[b] = "loop", !.todo[b] = fn_ret.conns]
    /\ WsFrame

\* the loop takes the next connection of the copy and awaits connection.send(message)
WsBroadcastSend(b, c) ==
    /\ fn_arg.fn = "ws"
    /\ fn_ret.bc[b] = "loop"
    /\ c \in fn_ret.todo[b]
    /\ fn_ret' = [fn_ret EXCEPT !.bc[b] = "sending", !.cur[b] = c, !.todo[b] = @ \ {c}]
    /\ WsFrame

\* the send is over: it raised if the connection is closed, and then
\* except Exception: _websocket_connections.remove(connection); a KeyError raised
\* there leaves broadcast_websocket_message
WsBroadcastSent(b) ==
    /\ fn_arg.fn = "ws"
    /\ fn_ret.bc[b] = "sending"
    /\ LET c == fn_ret.cur[b]
           r == SetRemove(fn_ret.conns, c)
           after == IF fn_ret.todo[b] = {} THEN "idle" ELSE "loop"
       IN  fn_ret' = IF c \in fn_ret.closed
                       THEN [fn_ret EXCEPT
                               !.conns = r.conns,
                               !.removals[c] = @ + 1,
                               !.cur[b] = NoConnection,
                               !.todo[b] = IF r.raised = "none" THEN @ ELSE {},
                               !.bc[b] = IF r.raised = "none" THEN after ELSE r.raised]
                       ELSE [fn_ret EXCEPT !.cur[b] = NoConnection, !.bc[b] = after]
    /\ WsFrame

NextWs ==
    \/ \E c \in WsConnections : WsConnect(c)
    \/ \E c \in WsConnections : WsClose(c)
    \/ \E c \in WsConnections : WsHandlerFinally(c)
    \/ \E b \in WsBroadcasts : WsBroadcastStart(b)
    \/ \E b \in WsBroadcasts, c \in WsConnections : WsBroadcastSend(b, c)
    \/ \E b \in WsBroadcasts : WsBroadcastSent(b)

SpecWs == InitWs /\ [][NextWs]_vars

WsNoError ==
    /\ \A c \in WsConnections : fn_ret.handler[c] # "KeyError"
    /\ \A b \in WsBroadcasts : fn_ret.bc[b] # "KeyError"

\* C39: a connection is removed from _websocket_connections at most once; no
\* removal of an already-removed connection is attempted and no error is raised,
\* whether a broadcast and the connection's handler, or two broadcasts, meet on
\* the same failed connection.
C39_RemovedAtMostOnce ==
    fn_arg.fn = "ws" =>
        /\ \A c \in WsConnections : fn_ret.removals[c] <= 1
        /\ WsNoError
\* what does hold: a connection leaves the set once, and every further remove raises
C39_SecondRemoveRaises ==
    fn_arg.fn = "ws" =>
        \A c \in WsConnections :
            /\ fn_ret.removals[c] >= 1 => c \notin fn_ret.conns
            /\ fn_ret.removals[c] >= 2 => ~WsNoError
\* the handler's finally block met a connection the broadcast had dropped
C39_HandlerAfterBroadcast ==
    /\ fn_arg.fn = "ws"
    /\ \E c \in WsConnections : fn_ret.handler[c] = "KeyError"
\* a broadcast met a connection another task had dropped
C39_BroadcastAfterRemoval ==
    /\ fn_arg.fn = "ws"
    /\ \E b \in WsBroadcasts : fn_ret.bc[b] = "KeyError"


====
